---- MODULE Spec2Model ----
(***************************************************************************)
(* Audio streaming and playback scheduling of the voice assistant clients. *)
(*                                                                         *)
(*   Spec, SpecPlay, SpecRecord      voice-assistant.js                    *)
(*                                   (src/voice-assistant.js)              *)
(*   SpecCV, SpecCVPlay, SpecCVGroup continuous-voice.js                   *)
(*                                   (src/unnamed/part_001, lines 1-1437)  *)
(*   SpecCapture                     pcm-processor.js, audio-processor.js  *)
(*   SpecPoc                         poc.js                                *)
(*                                   (src/unnamed/part_001, 2208-2593)     *)
(*   SpecWav                         createWavHeader                       *)
(*   SpecEarlier                     the earlier voice-assistant.js        *)
(*                                   (src/unnamed/part_002)                *)
(*   SpecSimplePlay                  simple-voice.js, playback             *)
(*                                   (src/unnamed/part_000)                *)
(*                                                                         *)
(* Spec and SpecCV run a whole session, with the user and the faults of    *)
(* the connection (SpecRecord adds the capture callbacks); SpecPlay,       *)
(* SpecCVPlay and SpecCVGroup run the playback of streamed responses with  *)
(* nothing interrupting it; SpecCapture runs a capture worklet alone and   *)
(* SpecPoc the outbound path of poc.js.                                    *)
(*                                                                         *)
(* Both clients keep their state in module-level variables of the same     *)
(* names; the model has one variable per program variable, and each        *)
(* specification runs the handlers of one client.  A handler is an         *)
(* operator from a state record to a state record, so that a handler that  *)
(* calls another one is the composition of the two; an action applies a    *)
(* handler to the current state and commits the result.                    *)
(*                                                                         *)
(* Time is the audio clock (audioContext.currentTime) in ticks; one tick   *)
(* is the playing time of the smallest chunk.  Callbacks queued with       *)
(* setTimeout, decodeAudioData completions and socket events fire in any   *)
(* order.                                                                  *)
(***************************************************************************)
EXTENDS Integers, Sequences, FiniteSets, TLC

\* ---------------------------------------------------------------- bounds
MaxChunks == 2          \* audio_chunk events the server sends in a session with a user
MaxPlayChunks == 3      \* audio_chunk events the server sends in a run of playback alone
MaxGroupChunks == 5     \* audio_chunk events of the larger size in a run of grouping
MaxRecordChunks == 1    \* audio_chunk events the server sends in a run with capture
MaxTime == 1            \* ticks the clock may advance with nothing pending
MaxDecodeErrors == 1    \* decodeAudioData calls that may fail
MaxMicRequests == 1     \* getUserMedia requests pending at once
MaxRestartChunks == 1   \* chunks the server sends in a run with repeated starts
MaxClicks == 2          \* clicks on the record button in one run
MaxFaults == 1          \* disconnects, processing errors and microphone refusals
MaxFinishCount == 2     \* the count of completions saturates here
MaxCaptureChunks == 2   \* chunks' worth of samples the microphone delivers to a worklet
FloatOne == 8192        \* a float sample x is the integer x * FloatOne
MaxPocChunks == 4       \* chunks the worklet posts to poc.js in one run
MaxEarlierClicks == 3   \* clicks on the record button of the earlier voice-assistant.js
MaxSimpleChunks == 4    \* chunks the server sends to simple-voice.js
MaxEarlierChunks == 2   \* audio_chunk events the earlier voice-assistant.js receives

\* byte lengths of the inbound chunks (16-bit mono PCM at 24 kHz)
ChunkSizes == {4000, 8000}
\* bytes of audio played in one tick of the clock
TickBytes == CHOOSE m \in ChunkSizes : \A x \in ChunkSizes : m <= x

\* --------------------------------------------------- program constants
CHUNK_BUFFER_SIZE == 1
MaxChunksToProcess == 3
\* the 100 ms added to the completion timer, rounded down to whole ticks
FinishSlack == 1
\* continuous-voice.js
EXPECTED_SAMPLE_RATE == 24000
maxChunksToGroup == 3
maxBufferDurationMs == 300

Min(a, b) == IF a < b THEN a ELSE b
Max(a, b) == IF a > b THEN a ELSE b

VARIABLES
    \* program variables
    audioQueue,            \* inbound chunks not yet taken for decoding
    audioBufferQueue,      \* the active set: [source, startTime, duration]
    isPlayingQueue,
    nextPlayTime,
    audioStreamEnded,
    audioChunkCount,
    isFirstChunkPlayed,
    forceInterrupt,
    isRecording,
    isCallActive,          \* continuous-voice.js only
    isMuted,               \* continuous-voice.js only
    trackEnabled,          \* continuous-voice.js only: localStream's audio track is enabled
    localStream,           \* TRUE iff not null
    sourceNode,            \* TRUE iff not null (and connected)
    scriptProcessorNode,   \* TRUE iff not null (and connected)
    recordButtonDisabled,  \* recordButton.disabled
    socketConnected,       \* socket.connected
    socketActive,          \* the socket exists and connects or reconnects by itself
    \* the platform
    currentTime,           \* audioContext.currentTime, in ticks
    sources,               \* AudioBufferSourceNodes started and not yet ended
    ended,                 \* sources whose ended event is queued (onended not yet run)
    stopped,               \* those of them that resetAudioPlayback stopped (continuous-voice.js)
    decoding,              \* decodeAudioData calls in flight
    timers,                \* pending setTimeout callbacks, by kind
    finishTimers,          \* pending completion timers: [at, resp], the earliest firing time
                           \* and the latest response begun when the timer was set
    micRequests,           \* getUserMedia promises pending
    sent,                  \* events the last handler emitted on the socket
    \* the server
    quota,                 \* audio_chunk events the server sends in this run
    sizes,                 \* byte lengths of the chunks the server sends in this run
    received,              \* audio_chunk events received so far
    serverOpen,            \* the server has sent chunks and not yet audio_stream_end
    serverResp,            \* number of audio_stream_end events sent
    decodeErrors,          \* failed decodeAudioData calls so far
    clicks,                \* clicks on the record button so far
    faults,                \* disconnects, processing errors and refusals so far
    \* history
    staleStarted,          \* a source of chunks older than an interruption began to play
    scheduled,             \* the last two segments scheduled since the last reset
    finishCount,           \* runs of finishAudioPlayback since the last audio_chunk
    finishedEarly,         \* finishAudioPlayback ran with work left
    micDenied,             \* getUserMedia has been refused
    \* the capture worklets (pcm-processor.js, audio-processor.js)
    worklet,               \* the processor loaded, its fields and what it has posted
    \* poc.js (src/unnamed/part_001, lines 2208-2593): the outbound path
    poc,                   \* chunks posted, conversions in flight, events emitted
    \* createWavHeader
    wav,                   \* the arguments of a call and the header it returned
    \* the earlier voice-assistant.js (src/unnamed/part_002)
    earlier,               \* its program variables, timers and decodes in flight
    \* simple-voice.js (src/unnamed/part_000)
    simple                 \* its program variables and decodes in flight

clientVars == <<audioQueue, audioBufferQueue, isPlayingQueue, nextPlayTime, audioStreamEnded,
          audioChunkCount, isFirstChunkPlayed, forceInterrupt, isRecording, isCallActive,
          isMuted, trackEnabled, localStream, sourceNode, scriptProcessorNode,
          recordButtonDisabled, socketConnected, socketActive, currentTime, sources, ended,
          stopped,
          decoding, timers, finishTimers, micRequests, sent, quota, sizes, received, serverOpen,
          serverResp, decodeErrors, clicks, faults, staleStarted, scheduled, finishCount,
          finishedEarly, micDenied>>

vars == <<clientVars, worklet, poc, wav, earlier, simple>>

\* the current state as a record, with the last step's outputs cleared
St ==
    [audioQueue |-> audioQueue, audioBufferQueue |-> audioBufferQueue,
     isPlayingQueue |-> isPlayingQueue, nextPlayTime |-> nextPlayTime,
     audioStreamEnded |-> audioStreamEnded, audioChunkCount |-> audioChunkCount,
     isFirstChunkPlayed |-> isFirstChunkPlayed, forceInterrupt |-> forceInterrupt,
     isRecording |-> isRecording, isCallActive |-> isCallActive,
     isMuted |-> isMuted, trackEnabled |-> trackEnabled,
     localStream |-> localStream,
     sourceNode |-> sourceNode, scriptProcessorNode |-> scriptProcessorNode,
     recordButtonDisabled |-> recordButtonDisabled, socketConnected |-> socketConnected,
     socketActive |-> socketActive, ended |-> ended, stopped |-> stopped,
     quota |-> quota, sizes |-> sizes,
     scheduled |-> scheduled, finishCount |-> finishCount,
     finishedEarly |-> finishedEarly, micDenied |-> micDenied,
     currentTime |-> currentTime, sources |-> sources, decoding |-> decoding,
     timers |-> timers, finishTimers |-> finishTimers, micRequests |-> micRequests,
     sent |-> <<>>, received |-> received, serverOpen |-> serverOpen,
     serverResp |-> serverResp, decodeErrors |-> decodeErrors,
     clicks |-> clicks, faults |-> faults,
     staleStarted |-> staleStarted]

Commit(s) ==
    /\ audioQueue' = s.audioQueue
    /\ audioBufferQueue' = s.audioBufferQueue
    /\ isPlayingQueue' = s.isPlayingQueue
    /\ nextPlayTime' = s.nextPlayTime
    /\ audioStreamEnded' = s.audioStreamEnded
    /\ audioChunkCount' = s.audioChunkCount
    /\ isFirstChunkPlayed' = s.isFirstChunkPlayed
    /\ forceInterrupt' = s.forceInterrupt
    /\ isRecording' = s.isRecording
    /\ localStream' = s.localStream
    /\ sourceNode' = s.sourceNode
    /\ scriptProcessorNode' = s.scriptProcessorNode
    /\ recordButtonDisabled' = s.recordButtonDisabled
    /\ socketConnected' = s.socketConnected
    /\ currentTime' = s.currentTime
    /\ sources' = s.sources
    /\ decoding' = s.decoding
    /\ timers' = s.timers
    /\ finishTimers' = s.finishTimers
    /\ micRequests' = s.micRequests
    /\ sent' = s.sent
    /\ received' = s.received
    /\ serverOpen' = s.serverOpen
    /\ serverResp' = s.serverResp
    /\ decodeErrors' = s.decodeErrors
    /\ clicks' = s.clicks
    /\ faults' = s.faults
    /\ staleStarted' = s.staleStarted
    /\ isCallActive' = s.isCallActive
    /\ isMuted' = s.isMuted
    /\ trackEnabled' = s.trackEnabled
    /\ socketActive' = s.socketActive
    /\ ended' = s.ended
    /\ stopped' = s.stopped
    /\ quota' = s.quota
    /\ sizes' = s.sizes
    /\ scheduled' = s.scheduled
    /\ finishCount' = s.finishCount
    /\ finishedEarly' = s.finishedEarly
    /\ micDenied' = s.micDenied
    /\ UNCHANGED <<worklet, poc, wav, earlier, simple>>

\* ------------------------------------------------------------ helpers

\* An inbound chunk is [id, bytes, resp]: its arrival number, its byte length and
\* the response it belongs to.  A decodeAudioData call in flight is
\* [chunks, stale]; a started source is [id, first, last, resp, when, begin, dur,
\* stale, onended], where stale says that an interruption or reset ran after
\* the chunks were received and onended that the source has an onended handler.
\* A scheduled segment is [first, last, resp, start, dur, stale].

RECURSIVE SumBytes(_)
SumBytes(cs) == IF cs = <<>> THEN 0 ELSE Head(cs).bytes + SumBytes(Tail(cs))

\* AudioBuffer.duration of the decoded group, in ticks
Duration(cs) == SumBytes(cs) \div TickBytes

\* the interval in which a source is audible: start(when) with when in the past
\* begins at once
Playing(n, t) == n.begin <= t /\ t < n.begin + n.dur

Emit(s, ev) == [s EXCEPT !.sent = Append(@, ev)]

\* everything received so far is now older than an interruption
MarkStale(s) ==
    [s EXCEPT !.decoding = {[d EXCEPT !.stale = TRUE] : d \in s.decoding},
              !.sources = {[n EXCEPT !.stale = TRUE] : n \in s.sources},
              !.scheduled = <<>>]

\* the last two elements of a sequence
LastTwo(q) == IF Len(q) <= 2 THEN q ELSE SubSeq(q, Len(q) - 1, Len(q))

\* ------------------------------------------- voice-assistant.js handlers

setStatus(s, showLoading) ==
    LET isBusy == s.isPlayingQueue \/ showLoading
        canInteract == s.socketConnected /\ (s.isRecording \/ ~isBusy \/ s.isPlayingQueue)
    IN  [s EXCEPT !.recordButtonDisabled = ~canInteract]

\* item.source.stop() for every item of the active set
StopSources(s) ==
    [s EXCEPT !.sources =
        {n \in s.sources :
            \A i \in DOMAIN s.audioBufferQueue : s.audioBufferQueue[i].source # n.id}]

stopAudioPlayback(s) ==
    [StopSources(s) EXCEPT !.audioBufferQueue = <<>>,
                           !.nextPlayTime = 0,
                           !.isPlayingQueue = FALSE]

resetAudioPlayback(s) ==
    stopAudioPlayback(MarkStale(
        [s EXCEPT !.audioQueue = <<>>,
                  !.audioBufferQueue = <<>>,
                  !.isPlayingQueue = FALSE,
                  !.audioStreamEnded = FALSE,
                  !.nextPlayTime = 0,
                  !.audioChunkCount = 0,
                  !.isFirstChunkPlayed = FALSE]))

\* query: lastUserQuery.trim() is not empty (the transcript text is an input)
stopRecording(s, query) ==
    LET a == [s EXCEPT !.sourceNode = FALSE,
                       !.scriptProcessorNode = FALSE,
                       !.localStream = FALSE]
        b == IF s.socketConnected /\ s.isRecording THEN Emit(a, "stop_recording") ELSE a
    IN  setStatus([b EXCEPT !.isRecording = FALSE], query)

\* up to the await of getUserMedia
startRecording(s) ==
    IF ~s.socketConnected THEN setStatus(s, FALSE)
    ELSE IF s.isRecording THEN s
    ELSE [stopAudioPlayback(resetAudioPlayback(setStatus(s, TRUE)))
             EXCEPT !.micRequests = @ + 1]

\* variants of interruptModel, each wrong in one respect
interruptModelKeepsQueue(s) ==
    LET a == StopSources([s EXCEPT !.forceInterrupt = TRUE])
        b == [a EXCEPT !.audioBufferQueue = <<>>,
                       !.isPlayingQueue = FALSE,
                       !.nextPlayTime = 0,
                       !.audioStreamEnded = FALSE]
        c == IF b.socketConnected THEN Emit(b, "interrupt_response") ELSE b
    IN  startRecording(MarkStale(c))

interruptModelStopsCapture(s) ==
    LET a == StopSources([s EXCEPT !.forceInterrupt = TRUE])
        b == [a EXCEPT !.audioQueue = <<>>,
                       !.audioBufferQueue = <<>>,
                       !.isPlayingQueue = FALSE,
                       !.nextPlayTime = 0,
                       !.audioStreamEnded = FALSE]
        c == IF b.socketConnected THEN Emit(b, "interrupt_response") ELSE b
    IN  startRecording(stopRecording(MarkStale(c), FALSE))

interruptModelKeepsClock(s) ==
    LET a == StopSources([s EXCEPT !.forceInterrupt = TRUE])
        b == [a EXCEPT !.audioQueue = <<>>,
                       !.audioBufferQueue = <<>>,
                       !.isPlayingQueue = FALSE,
                       !.nextPlayTime = IF @ = 0 THEN s.currentTime + 1 ELSE 0,
                       !.audioStreamEnded = FALSE]
        c == IF b.socketConnected THEN Emit(b, "interrupt_response") ELSE b
    IN  startRecording(MarkStale(c))

interruptModel(s) ==
    LET a == StopSources([s EXCEPT !.forceInterrupt = TRUE])
        b == [a EXCEPT !.audioQueue = <<>>,
                       !.audioBufferQueue = <<>>,
                       !.isPlayingQueue = FALSE,
                       !.nextPlayTime = 0,
                       !.audioStreamEnded = FALSE]
        c == IF b.socketConnected THEN Emit(b, "interrupt_response") ELSE b
    IN  startRecording(MarkStale(c))

toggleRecording(s, query) ==
    IF s.isRecording
    THEN IF s.isPlayingQueue THEN interruptModel(s) ELSE stopRecording(s, query)
    ELSE startRecording(s)

finishAudioPlayback(s) ==
    [s EXCEPT !.finishTimers =
        Append(@, [at |-> Max(s.nextPlayTime, s.currentTime) + FinishSlack,
                   resp |-> IF s.serverOpen THEN s.serverResp ELSE s.serverResp - 1])]

processNextAudioChunks(s) ==
    IF s.audioQueue = <<>>
    THEN IF s.audioStreamEnded THEN finishAudioPlayback(s) ELSE s
    ELSE LET k == Min(Len(s.audioQueue), MaxChunksToProcess)
         IN  [s EXCEPT !.audioQueue = SubSeq(@, k + 1, Len(@)),
                       !.decoding = @ \cup {[chunks |-> SubSeq(s.audioQueue, 1, k),
                                             stale |-> FALSE]}]

startProgressivePlayback(s) ==
    IF s.isPlayingQueue \/ s.audioQueue = <<>> THEN s
    ELSE LET a == setStatus([s EXCEPT !.isPlayingQueue = TRUE], TRUE)
         IN  processNextAudioChunks(
                 [a EXCEPT !.nextPlayTime = IF @ = 0 THEN s.currentTime ELSE @])

\* source.start(when) of a new source over the decoded group d
StartSource(s, d, when, handler) ==
    LET cs == d.chunks
        n == [id |-> cs[1].id, first |-> cs[1].id, last |-> cs[Len(cs)].id,
              resp |-> cs[1].resp, when |-> when,
              begin |-> Max(when, s.currentTime), dur |-> Duration(cs),
              stale |-> d.stale, onended |-> handler]
        g == [first |-> n.first, last |-> n.last, resp |-> n.resp,
              start |-> when, dur |-> n.dur, stale |-> d.stale]
    IN  [s EXCEPT !.sources = @ \cup {n},
                  !.scheduled = LastTwo(Append(@, g)),
                  !.staleStarted = @ \/ (n.begin <= s.currentTime /\ d.stale)]

scheduleAudioBuffer(s, d) ==
    IF Duration(d.chunks) <= 0 THEN s
    ELSE LET a == [s EXCEPT !.audioBufferQueue =
                       Append(@, [source |-> d.chunks[1].id,
                                  startTime |-> s.nextPlayTime,
                                  duration |-> Duration(d.chunks)])]
         IN  [StartSource(a, d, s.nextPlayTime, FALSE)
                 EXCEPT !.nextPlayTime = @ + Duration(d.chunks)]

handleAudioChunk(s, bytes) ==
    LET a == [s EXCEPT !.received = @ + 1,
                       !.audioChunkCount = @ + 1,
                       !.audioQueue = Append(@, [id |-> s.received + 1,
                                                 bytes |-> bytes,
                                                 resp |-> s.serverResp])]
    IN  IF a.audioChunkCount = 1
        THEN LET b == setStatus(a, TRUE)
             IN  IF ~b.isPlayingQueue THEN [b EXCEPT !.timers.start = @ + 1] ELSE b
        ELSE IF ~a.isFirstChunkPlayed /\ a.audioChunkCount >= CHUNK_BUFFER_SIZE
        THEN IF ~a.isPlayingQueue
             THEN [startProgressivePlayback(a) EXCEPT !.isFirstChunkPlayed = TRUE]
             ELSE a
        ELSE a

handleAudioStreamEnd(s) ==
    LET a == [s EXCEPT !.audioStreamEnded = TRUE]
    IN  IF ~a.isPlayingQueue /\ a.audioQueue # <<>> THEN startProgressivePlayback(a) ELSE a

\* the callback handleAudioChunk queues with setTimeout(.., delayBeforePlaying)
StartTimerCallback(s) ==
    IF s.audioQueue # <<>> /\ ~s.isPlayingQueue
    THEN [startProgressivePlayback(s) EXCEPT !.isFirstChunkPlayed = TRUE]
    ELSE s

\* the success callback of decodeAudioData
DecodeSuccess(s, d) ==
    LET a == scheduleAudioBuffer(s, d)
    IN  IF a.audioQueue # <<>> \/ ~a.audioStreamEnded
        THEN [a EXCEPT !.timers.poll = @ + 1]
        ELSE finishAudioPlayback(a)

\* the error callback of decodeAudioData
DecodeError(s) == processNextAudioChunks(s)

\* the callback finishAudioPlayback queues with setTimeout
FinishTimerCallback(s) ==
    LET a == [s EXCEPT !.isPlayingQueue = FALSE,
                       !.audioStreamEnded = FALSE,
                       !.nextPlayTime = 0,
                       !.audioQueue = <<>>,
                       !.audioBufferQueue = <<>>]
    IN  [setStatus(a, FALSE) EXCEPT !.recordButtonDisabled = ~a.socketConnected]

handleResponseCanceled(s) ==
    [resetAudioPlayback(s) EXCEPT !.forceInterrupt = FALSE]

handleError(s, query) ==
    LET a == stopRecording(resetAudioPlayback(setStatus(s, FALSE)), query)
    IN  [a EXCEPT !.recordButtonDisabled = ~a.socketConnected]

\* speech_started, speech_stopped, processing_started, response_starting:
\* of the modelled state each only calls setStatus(.., true)
handleSpeechStarted(s) == setStatus(s, TRUE)

OnConnect(s) ==
    [setStatus([s EXCEPT !.socketConnected = TRUE], FALSE)
        EXCEPT !.recordButtonDisabled = FALSE]

OnDisconnect(s, query) ==
    LET a == setStatus([s EXCEPT !.socketConnected = FALSE], FALSE)
    IN  stopRecording([a EXCEPT !.recordButtonDisabled = TRUE], query)

\* the continuation of startRecording once getUserMedia resolves
MicGranted(s) ==
    Emit([s EXCEPT !.micRequests = @ - 1,
                   !.localStream = TRUE,
                   !.sourceNode = TRUE,
                   !.scriptProcessorNode = TRUE,
                   !.isRecording = TRUE], "start_recording")

\* a catch block of startRecording that goes on as if the stream had been obtained
MicDeniedStartsAnyway(s, query) ==
    Emit([s EXCEPT !.micRequests = @ - 1, !.isRecording = TRUE], "start_recording")

\* the catch block of startRecording
MicDenied(s, query) ==
    stopRecording(setStatus([s EXCEPT !.micRequests = @ - 1], FALSE), query)

\* scriptProcessorNode.onaudioprocess that emits each captured chunk twice
onaudioprocessEmitsTwice(s) ==
    Emit(Emit(s, "audio_input_chunk"), "audio_input_chunk")

\* scriptProcessorNode.onaudioprocess: one captured block of 4096 samples
onaudioprocess(s) ==
    IF ~s.isRecording THEN s
    ELSE IF s.socketConnected THEN Emit(s, "audio_input_chunk")
    ELSE s

\* ------------------------------------------------------------- actions

StartClient(chunks, lengths, streamEnded, socketCreated) ==
    /\ audioQueue = <<>>
    /\ audioBufferQueue = <<>>
    /\ isPlayingQueue = FALSE
    /\ nextPlayTime = 0
    /\ audioStreamEnded = streamEnded
    /\ audioChunkCount = 0
    /\ isFirstChunkPlayed = FALSE
    /\ forceInterrupt = FALSE
    /\ isRecording = FALSE
    /\ localStream = FALSE
    /\ sourceNode = FALSE
    /\ scriptProcessorNode = FALSE
    /\ recordButtonDisabled = TRUE
    /\ socketConnected = FALSE
    /\ currentTime = 0
    /\ sources = {}
    /\ decoding = {}
    /\ timers = [start |-> 0, poll |-> 0, play |-> 0]
    /\ finishTimers = <<>>
    /\ micRequests = 0
    /\ sent = <<>>
    /\ received = 0
    /\ serverOpen = FALSE
    /\ serverResp = 0
    /\ decodeErrors = 0
    /\ clicks = 0
    /\ faults = 0
    /\ staleStarted = FALSE
    /\ isCallActive = FALSE
    /\ isMuted = FALSE
    /\ trackEnabled = FALSE
    /\ socketActive = socketCreated
    /\ ended = {}
    /\ stopped = {}
    /\ quota = chunks
    /\ sizes = lengths
    /\ scheduled = <<>>
    /\ finishCount = 0
    /\ finishedEarly = FALSE
    /\ micDenied = FALSE

\* no capture worklet is loaded
NoWorklet == [kind |-> "none"]

\* poc.js is not the page loaded
NoPoc == [loaded |-> FALSE]

\* the earlier voice-assistant.js is not the page loaded
NoEarlier == [loaded |-> FALSE]

\* simple-voice.js is not loaded
NoSimple == [loaded |-> FALSE]

\* createWavHeader is not being called
NoWav == [called |-> FALSE]

Start(chunks, lengths, streamEnded, socketCreated) ==
    /\ StartClient(chunks, lengths, streamEnded, socketCreated)
    /\ worklet = NoWorklet
    /\ poc = NoPoc
    /\ wav = NoWav
    /\ earlier = NoEarlier
    /\ simple = NoSimple

\* voice-assistant.js after initialize(): the socket is created and connecting;
\* the server sends short responses of equal chunks
Init == Start(MaxChunks, {TickBytes}, FALSE, TRUE)

\* the same, with a server that streams longer responses of unequal chunks
InitPlay == Start(MaxPlayChunks, ChunkSizes, FALSE, TRUE)

SocketConnect ==
    /\ ~socketConnected
    /\ Commit(OnConnect(St))

SocketDisconnect ==
    /\ socketConnected
    /\ faults < MaxFaults
    /\ \E query \in BOOLEAN :
          Commit(OnDisconnect([St EXCEPT !.faults = @ + 1], query))

ReceiveAudioChunk ==
    /\ socketConnected
    /\ received < quota
    /\ \E bytes \in sizes :
          Commit([handleAudioChunk(St, bytes) EXCEPT !.serverOpen = TRUE])

ReceiveAudioStreamEnd ==
    /\ socketConnected
    /\ serverOpen
    /\ Commit([handleAudioStreamEnd(St) EXCEPT !.serverOpen = FALSE,
                                                !.serverResp = @ + 1])

ReceiveResponseCanceled ==
    /\ socketConnected
    /\ forceInterrupt
    /\ Commit(handleResponseCanceled(St))

ReceiveProcessingError ==
    /\ socketConnected
    /\ faults < MaxFaults
    /\ \E query \in BOOLEAN :
          Commit(handleError([St EXCEPT !.faults = @ + 1], query))

ReceiveSpeechStarted ==
    /\ socketConnected
    /\ Commit(handleSpeechStarted(St))

ClickRecordButton ==
    /\ ~recordButtonDisabled
    /\ isRecording \/ micRequests < MaxMicRequests
    /\ clicks < MaxClicks
    /\ \E query \in BOOLEAN :
          Commit(toggleRecording([St EXCEPT !.clicks = @ + 1], query))

MicrophoneGranted ==
    /\ micRequests > 0
    /\ Commit(MicGranted(St))

MicrophoneDenied ==
    /\ micRequests > 0
    /\ faults < MaxFaults
    /\ \E query \in BOOLEAN :
          Commit(MicDenied([St EXCEPT !.faults = @ + 1, !.micDenied = TRUE], query))

StartTimerFires ==
    /\ timers.start > 0
    /\ Commit(StartTimerCallback([St EXCEPT !.timers.start = @ - 1]))

PollTimerFires ==
    /\ timers.poll > 0
    /\ Commit(processNextAudioChunks([St EXCEPT !.timers.poll = @ - 1]))

FinishTimerFires ==
    /\ finishTimers # <<>>
    /\ \E i \in DOMAIN finishTimers :
          /\ finishTimers[i].at <= currentTime
          /\ Commit(FinishTimerCallback(
                 [St EXCEPT !.finishTimers =
                     SubSeq(@, 1, i - 1) \o SubSeq(@, i + 1, Len(@))]))

DecodeSucceeds ==
    \E d \in decoding :
        Commit(DecodeSuccess([St EXCEPT !.decoding = @ \ {d}], d))

DecodeFails ==
    /\ decodeErrors < MaxDecodeErrors
    /\ \E d \in decoding :
          Commit(DecodeError([St EXCEPT !.decoding = @ \ {d},
                                        !.decodeErrors = @ + 1]))

\* something is waiting for the clock
TimePending(s) ==
    \/ \E n \in s.sources : n.begin + n.dur > s.currentTime
    \/ \E i \in DOMAIN s.finishTimers : s.finishTimers[i].at > s.currentTime

\* the audio clock advances; sources reach their start and their end
AdvanceClock(s) ==
    LET t == s.currentTime + 1
    IN  [s EXCEPT !.currentTime = t,
                  !.sources = {n \in @ : n.begin + n.dur > t},
                  !.ended = @ \cup {n.id : n \in {m \in s.sources :
                                                     m.onended /\ m.begin + m.dur <= t}},
                  !.staleStarted = @ \/ \E n \in s.sources : n.begin = t /\ n.stale]

Tick ==
    /\ currentTime < MaxTime \/ TimePending(St)
    /\ Commit(AdvanceClock(St))

Next ==
    \/ SocketConnect
    \/ SocketDisconnect
    \/ ReceiveAudioChunk
    \/ ReceiveAudioStreamEnd
    \/ ReceiveResponseCanceled
    \/ ReceiveProcessingError
    \/ ReceiveSpeechStarted
    \/ ClickRecordButton
    \/ MicrophoneGranted
    \/ MicrophoneDenied
    \/ StartTimerFires
    \/ PollTimerFires
    \/ FinishTimerFires
    \/ DecodeSucceeds
    \/ DecodeFails
    \/ Tick

Spec == Init /\ [][Next]_vars

\* a click on the record button, which a handler has enabled again, while
\* startRecording is still awaiting getUserMedia
ClickWhileAwaitingMicrophone ==
    /\ ~recordButtonDisabled
    /\ ~isRecording
    /\ micRequests = MaxMicRequests
    /\ clicks <= MaxClicks
    /\ \E query \in BOOLEAN :
          Commit(toggleRecording([St EXCEPT !.clicks = @ + 1], query))

\* a whole session in which the user may start again before the microphone
\* has answered
InitRestart == Start(MaxRestartChunks, {TickBytes}, FALSE, TRUE)

NextRestart ==
    \/ Next
    \/ ClickWhileAwaitingMicrophone

SpecRestart == InitRestart /\ [][NextRestart]_vars

\* playback alone: the server streams and nobody touches the page
NextPlay ==
    \/ SocketConnect
    \/ ReceiveAudioChunk
    \/ ReceiveAudioStreamEnd
    \/ StartTimerFires
    \/ PollTimerFires
    \/ FinishTimerFires
    \/ DecodeSucceeds
    \/ DecodeFails
    \/ Tick

SpecPlay == InitPlay /\ [][NextPlay]_vars

\* the connected ScriptProcessorNode delivers a block of microphone samples
AudioProcess ==
    /\ scriptProcessorNode
    /\ Commit(onaudioprocess(St))

\* a whole session, with the capture callbacks, against a server that sends
\* one-chunk responses
InitRecord == Start(MaxRecordChunks, {TickBytes}, FALSE, TRUE)

NextRecord ==
    \/ Next
    \/ AudioProcess

SpecRecord == InitRecord /\ [][NextRecord]_vars

\* ------------------------------------------ continuous-voice.js handlers

cv_finishAudioPlayback(s) ==
    [s EXCEPT !.isPlayingQueue = FALSE,
              !.audioStreamEnded = TRUE,
              !.nextPlayTime = 0,
              !.audioQueue = <<>>,
              !.audioBufferQueue = <<>>,
              !.finishCount = Min(@ + 1, MaxFinishCount),
              !.finishedEarly = @ \/ s.audioQueue # <<>> \/ ~s.audioStreamEnded
                                  \/ s.audioBufferQueue # <<>>]

\* item.source.stop() for every item of the active set: a source that was
\* still alive stops and its ended event is queued
cv_StopSources(s) ==
    LET hit == {n \in s.sources :
                   \E i \in DOMAIN s.audioBufferQueue : s.audioBufferQueue[i].source = n.id}
    IN  [s EXCEPT !.sources = @ \ hit,
                  !.ended = @ \cup {n.id : n \in hit},
                  !.stopped = @ \cup {n.id : n \in hit}]

\* resetAudioPlayback that stops the sources and leaves the waiting chunks
cv_resetAudioPlaybackKeepsQueue(s) ==
    MarkStale([cv_StopSources(s) EXCEPT !.audioBufferQueue = <<>>,
                                        !.isPlayingQueue = FALSE,
                                        !.audioStreamEnded = TRUE,
                                        !.nextPlayTime = 0])

cv_resetAudioPlayback(s) ==
    MarkStale([cv_StopSources(s) EXCEPT !.audioBufferQueue = <<>>,
                                        !.audioQueue = <<>>,
                                        !.isPlayingQueue = FALSE,
                                        !.audioStreamEnded = TRUE,
                                        !.nextPlayTime = 0])

\* the while loop that collects the next group: the number of chunks taken
\* the grouping loop without its duration limit
RECURSIVE GroupLenCountOnly(_, _, _)
GroupLenCountOnly(q, n, bytes) ==
    IF q = <<>> \/ n >= maxChunksToGroup
    THEN n
    ELSE GroupLenCountOnly(Tail(q), n + 1, bytes + Head(q).bytes)

RECURSIVE GroupLen(_, _, _)
GroupLen(q, n, bytes) ==
    IF q = <<>> \/ n >= maxChunksToGroup
       \/ bytes * 1000 >= maxBufferDurationMs * 2 * EXPECTED_SAMPLE_RATE
    THEN n
    ELSE GroupLen(Tail(q), n + 1, bytes + Head(q).bytes)

\* playNextAudioChunk that collects its group from the end of the queue
cv_playNextAudioChunkTakesLast(s) ==
    IF s.audioQueue = <<>> /\ s.audioStreamEnded
    THEN IF s.audioBufferQueue = <<>> THEN cv_finishAudioPlayback(s) ELSE s
    ELSE IF ~s.isCallActive THEN cv_resetAudioPlayback(s)
    ELSE IF s.audioQueue = <<>> THEN [s EXCEPT !.isPlayingQueue = FALSE]
    ELSE LET k == GroupLen(s.audioQueue, 0, 0)
             m == Len(s.audioQueue)
         IN  [s EXCEPT !.isPlayingQueue = TRUE,
                       !.audioQueue = SubSeq(@, 1, m - k),
                       !.decoding = @ \cup {[chunks |-> SubSeq(s.audioQueue, m - k + 1, m),
                                             stale |-> FALSE]}]

\* up to the await of decodeAudioData
cv_playNextAudioChunk(s) ==
    IF s.audioQueue = <<>> /\ s.audioStreamEnded
    THEN IF s.audioBufferQueue = <<>> THEN cv_finishAudioPlayback(s) ELSE s
    ELSE IF ~s.isCallActive THEN cv_resetAudioPlayback(s)
    ELSE IF s.audioQueue = <<>> THEN [s EXCEPT !.isPlayingQueue = FALSE]
    ELSE LET k == GroupLen(s.audioQueue, 0, 0)
         IN  [s EXCEPT !.isPlayingQueue = TRUE,
                       !.audioQueue = SubSeq(@, k + 1, Len(@)),
                       !.decoding = @ \cup {[chunks |-> SubSeq(s.audioQueue, 1, k),
                                             stale |-> FALSE]}]

\* the rest of the try block of playNextAudioChunk, once the decode resolves
cv_DecodeResolved(s, d) ==
    LET startTime == IF s.nextPlayTime > s.currentTime THEN s.nextPlayTime
                     ELSE s.currentTime
        a == [s EXCEPT !.audioBufferQueue =
                  Append(@, [source |-> d.chunks[1].id,
                             startTime |-> startTime,
                             duration |-> Duration(d.chunks)])]
        b == [StartSource(a, d, startTime, TRUE)
                 EXCEPT !.nextPlayTime = startTime + Duration(d.chunks)]
    IN  IF b.audioQueue # <<>> THEN [b EXCEPT !.timers.play = @ + 1] ELSE b

\* the catch block of playNextAudioChunk
cv_DecodeRejected(s) ==
    LET a == [s EXCEPT !.isPlayingQueue = FALSE]
    IN  IF a.audioQueue # <<>> THEN [a EXCEPT !.timers.play = @ + 1]
        ELSE IF a.audioStreamEnded THEN cv_finishAudioPlayback(a)
        ELSE a

\* source.onended of the source numbered id
cv_onended(s, id) ==
    LET a == [s EXCEPT !.audioBufferQueue = SelectSeq(@, LAMBDA it : it.source # id)]
    IN  IF a.audioBufferQueue = <<>> /\ a.audioQueue = <<>> /\ a.audioStreamEnded
        THEN cv_finishAudioPlayback(a)
        ELSE IF a.audioBufferQueue = <<>> THEN cv_playNextAudioChunk(a)
        ELSE a

\* the byte length that stands for an event without data.audio
NoAudio == 0

\* handleAudioChunk that tests nothing before it queues the chunk
cv_handleAudioChunkUnguarded(s, bytes) ==
    LET a == [s EXCEPT !.received = @ + 1,
                       !.audioQueue = Append(@, [id |-> s.received + 1,
                                                 bytes |-> bytes,
                                                 resp |-> s.serverResp]),
                       !.audioStreamEnded = FALSE]
    IN  IF ~a.isPlayingQueue THEN [a EXCEPT !.timers.play = @ + 1] ELSE a

cv_handleAudioChunk(s, bytes) ==
    IF bytes = NoAudio THEN [s EXCEPT !.received = @ + 1]
    ELSE IF ~s.isCallActive THEN [s EXCEPT !.received = @ + 1]
    ELSE LET a == [s EXCEPT !.received = @ + 1,
                            !.audioQueue = Append(@, [id |-> s.received + 1,
                                                      bytes |-> bytes,
                                                      resp |-> s.serverResp]),
                            !.audioStreamEnded = FALSE]
         IN  IF ~a.isPlayingQueue THEN [a EXCEPT !.timers.play = @ + 1] ELSE a

cv_handleAudioStreamEnd(s) ==
    LET a == [s EXCEPT !.audioStreamEnded = TRUE]
    IN  IF ~a.isPlayingQueue /\ a.audioQueue # <<>> THEN cv_playNextAudioChunk(a)
        ELSE IF a.audioQueue = <<>> /\ ~a.isPlayingQueue THEN cv_finishAudioPlayback(a)
        ELSE a

cv_handleResponseCanceled(s) == cv_resetAudioPlayback(s)

stopAudioProcessing(s) ==
    LET a == [s EXCEPT !.sourceNode = FALSE,
                       !.scriptProcessorNode = FALSE,
                       !.localStream = FALSE,
                       !.trackEnabled = FALSE]
    IN  IF a.socketConnected THEN Emit(a, "stop_recording") ELSE a

startContinuousCapture(s) ==
    IF s.socketConnected THEN Emit(s, "start_recording") ELSE s

\* the disconnect handler; the socket is already closed when it runs
cv_OnDisconnect(s) ==
    cv_resetAudioPlayback(stopAudioProcessing([s EXCEPT !.socketConnected = FALSE]))

cv_OnConnect(s) ==
    LET a == Emit([s EXCEPT !.socketConnected = TRUE], "update_vad_config")
    IN  IF a.isCallActive THEN startContinuousCapture(a) ELSE a

connectToServer(s) ==
    [(IF s.socketConnected THEN cv_OnDisconnect(s) ELSE s) EXCEPT !.socketActive = TRUE]

\* startCall up to the await of getUserMedia
startCall(s) ==
    IF s.isCallActive THEN s ELSE [s EXCEPT !.micRequests = @ + 1]

\* the rest of the try block of startCall.  When capture nodes are left from
\* an earlier start, setupAudioProcessing runs stopAudioProcessing, which also
\* stops and forgets the stream just obtained, and createMediaStreamSource(null)
\* throws: the catch block of startCall runs.
cv_MicGranted(s) ==
    LET a == [s EXCEPT !.micRequests = @ - 1,
                       !.localStream = TRUE,
                       !.trackEnabled = TRUE]
    IN  IF s.sourceNode \/ s.scriptProcessorNode
        THEN cv_resetAudioPlayback(stopAudioProcessing(
                 [stopAudioProcessing(a) EXCEPT !.isCallActive = FALSE]))
        ELSE connectToServer([a EXCEPT !.sourceNode = TRUE,
                                       !.scriptProcessorNode = TRUE,
                                       !.isCallActive = TRUE,
                                       !.isMuted = FALSE])

\* the catch block of startCall
cv_MicDenied(s) ==
    cv_resetAudioPlayback(stopAudioProcessing(
        [s EXCEPT !.micRequests = @ - 1, !.isCallActive = FALSE]))

\* socket.disconnect() runs the disconnect handler before it returns
endCall(s) ==
    IF ~s.isCallActive THEN s
    ELSE LET a == cv_resetAudioPlayback(stopAudioProcessing(s))
             b == IF a.socketConnected
                  THEN [cv_OnDisconnect(a) EXCEPT !.socketActive = FALSE]
                  ELSE a
         IN  [b EXCEPT !.isCallActive = FALSE, !.isMuted = FALSE]

\* toggleMute that flips the flag and leaves the track as it was
toggleMuteFlagOnly(s) ==
    IF ~s.isCallActive THEN s ELSE [s EXCEPT !.isMuted = ~@]

toggleMute(s) ==
    IF ~s.isCallActive THEN s
    ELSE LET a == [s EXCEPT !.isMuted = ~@]
         IN  IF a.localStream THEN [a EXCEPT !.trackEnabled = ~a.isMuted] ELSE a

\* toggleCall: the main button mutes and unmutes while the call is active
toggleCall(s) == IF s.isCallActive THEN toggleMute(s) ELSE startCall(s)

\* scriptProcessorNode.onaudioprocess; with localStream null the test of the
\* track throws and the callback ends there
cv_onaudioprocess(s) ==
    IF ~s.isCallActive THEN s
    ELSE IF ~s.localStream THEN s
    ELSE IF ~s.trackEnabled THEN s
    ELSE IF s.socketConnected THEN Emit(s, "audio_input_chunk")
    ELSE s

\* the processing_error handler
cv_handleError(s) == endCall(s)

\* ------------------------------------------ continuous-voice.js actions

\* continuous-voice.js after initialize(): no call, no socket;
\* the server sends short responses of equal chunks
InitCV == Start(MaxChunks, {TickBytes}, TRUE, FALSE)

\* the same, with a server that streams longer responses of unequal chunks
InitCVPlay == Start(MaxPlayChunks, ChunkSizes, TRUE, FALSE)

CVClickStartCall ==
    /\ ~isCallActive
    /\ micRequests < MaxMicRequests
    /\ clicks < MaxClicks
    /\ Commit(startCall([St EXCEPT !.clicks = @ + 1]))

\* a click on the mute button, or on the main button during a call
CVClickMute ==
    /\ isCallActive
    /\ Commit(toggleCall(St))

\* the connected ScriptProcessorNode delivers a block of microphone samples
CVAudioProcess ==
    /\ scriptProcessorNode
    /\ Commit(cv_onaudioprocess(St))

CVReceiveProcessingError ==
    /\ socketConnected
    /\ faults < MaxFaults
    /\ Commit(cv_handleError([St EXCEPT !.faults = @ + 1]))

CVMicrophoneGranted ==
    /\ micRequests > 0
    /\ Commit(cv_MicGranted(St))

CVMicrophoneDenied ==
    /\ micRequests > 0
    /\ faults < MaxFaults
    /\ Commit(cv_MicDenied([St EXCEPT !.faults = @ + 1, !.micDenied = TRUE]))

CVClickEndCall ==
    /\ isCallActive
    /\ clicks < MaxClicks
    /\ Commit(endCall([St EXCEPT !.clicks = @ + 1]))

CVSocketConnect ==
    /\ socketActive
    /\ ~socketConnected
    /\ Commit(cv_OnConnect(St))

CVSocketDisconnect ==
    /\ socketConnected
    /\ faults < MaxFaults
    /\ Commit(cv_OnDisconnect([St EXCEPT !.faults = @ + 1]))

CVReceiveAudioChunk ==
    /\ socketConnected
    /\ received < quota
    /\ \E bytes \in sizes :
          Commit([cv_handleAudioChunk(St, bytes) EXCEPT !.serverOpen = TRUE,
                                                        !.finishCount = 0])

\* an audio_chunk event with no audio in it
CVReceiveEmptyAudioChunk ==
    /\ socketConnected
    /\ received < quota
    /\ Commit(cv_handleAudioChunk(St, NoAudio))

CVReceiveAudioStreamEnd ==
    /\ socketConnected
    /\ serverOpen
    /\ Commit([cv_handleAudioStreamEnd(St) EXCEPT !.serverOpen = FALSE,
                                                   !.serverResp = @ + 1])

\* the server cancels the response it is streaming
CVReceiveResponseCanceled ==
    /\ socketConnected
    /\ serverOpen
    /\ Commit([cv_handleResponseCanceled(St) EXCEPT !.serverOpen = FALSE,
                                                     !.serverResp = @ + 1])

CVPlayTimerFires ==
    /\ timers.play > 0
    /\ Commit(cv_playNextAudioChunk([St EXCEPT !.timers.play = @ - 1]))

CVDecodeResolves ==
    \E d \in decoding :
        Commit(cv_DecodeResolved([St EXCEPT !.decoding = @ \ {d}], d))

CVDecodeRejects ==
    /\ decodeErrors < MaxDecodeErrors
    /\ \E d \in decoding :
          Commit(cv_DecodeRejected([St EXCEPT !.decoding = @ \ {d},
                                              !.decodeErrors = @ + 1]))

CVSourceEnded ==
    \E id \in ended :
        Commit(cv_onended([St EXCEPT !.ended = @ \ {id}, !.stopped = @ \ {id}], id))

NextCV ==
    \/ CVClickStartCall
    \/ CVClickMute
    \/ CVAudioProcess
    \/ CVReceiveProcessingError
    \/ CVMicrophoneGranted
    \/ CVMicrophoneDenied
    \/ CVClickEndCall
    \/ CVSocketConnect
    \/ CVSocketDisconnect
    \/ CVReceiveAudioChunk
    \/ CVReceiveEmptyAudioChunk
    \/ CVReceiveAudioStreamEnd
    \/ CVReceiveResponseCanceled
    \/ CVPlayTimerFires
    \/ CVDecodeResolves
    \/ CVDecodeRejects
    \/ CVSourceEnded
    \/ Tick

SpecCV == InitCV /\ [][NextCV]_vars

\* playback alone: a call is started, the server streams, and nothing
\* interrupts the call
NextCVPlay ==
    \/ CVClickStartCall
    \/ CVMicrophoneGranted
    \/ CVSocketConnect
    \/ CVReceiveAudioChunk
    \/ CVReceiveAudioStreamEnd
    \/ CVPlayTimerFires
    \/ CVDecodeResolves
    \/ CVDecodeRejects
    \/ CVSourceEnded
    \/ Tick

SpecCVPlay == InitCVPlay /\ [][NextCVPlay]_vars

\* playback of continuous-voice.js over a longer response whose chunks all have
\* the larger size
InitCVGroup == Start(MaxGroupChunks, ChunkSizes \ {TickBytes}, TRUE, FALSE)

\* the server ends the response once it has sent all of its chunks
CVReceiveFinalAudioStreamEnd ==
    /\ received = quota
    /\ CVReceiveAudioStreamEnd

\* one response of MaxGroupChunks chunks, every decode succeeding
NextCVGroup ==
    \/ CVClickStartCall
    \/ CVMicrophoneGranted
    \/ CVSocketConnect
    \/ CVReceiveAudioChunk
    \/ CVReceiveFinalAudioStreamEnd
    \/ CVPlayTimerFires
    \/ CVDecodeResolves
    \/ CVSourceEnded
    \/ Tick

SpecCVGroup == InitCVGroup /\ [][NextCVGroup]_vars

\* ------------------------------------------------------ capture worklets

\* pcm-processor.js and audio-processor.js run in the audio thread: process()
\* is called with one block of float samples at a time and posts chunks of
\* 16-bit samples to the page.  A float sample x is held as the integer
\* x * FloatOne.

BUFFER_SIZE == 4096
bufferSize == 4096

\* lengths of the blocks process() is called with
BlockLengths == {128, 1000, 4096}

\* the microphone signal: a rising or a falling ramp that passes full scale,
\* so that samples at different positions of a run differ
Waves == {"rising", "falling"}

InputSample(wave, pos) ==
    LET level == pos % (FloatOne + (FloatOne \div 8))
    IN  IF wave = "rising" THEN level ELSE 0 - level

InputBlock(wave, from, len) == [i \in 1..len |-> InputSample(wave, from + i)]

\* Math.max(-1, Math.min(1, x))
Clamp(x) == Max(0 - FloatOne, Min(FloatOne, x))

\* the integer part of n / d, as a typed array keeps it
Trunc(n, d) == IF n >= 0 THEN n \div d ELSE 0 - ((0 - n) \div d)

\* the store of a number into an Int16Array element
ToInt16(n) ==
    LET m == n % 65536
    IN  IF m >= 32768 THEN m - 65536 ELSE m

\* pcm-processor.js: clamp(x) * 0x7FFF stored into the Int16Array
pcm_int16Sample(x) == ToInt16(Trunc(Clamp(x) * 32767, FloatOne))

\* audio-processor.js: s < 0 ? s * 0x8000 : s * 0x7FFF stored into the Int16Array
aip_int16Sample(x) ==
    LET c == Clamp(x)
    IN  ToInt16(Trunc(IF c < 0 THEN c * 32768 ELSE c * 32767, FloatOne))

LoadedWorklet(kind, wave) ==
    [kind |-> kind, wave |-> wave, fed |-> 0,
     \* PCMProcessor
     buffer_ |-> [i \in 1..BUFFER_SIZE |-> 0], bufferIndex_ |-> 0,
     totalSamplesProcessed |-> 0,
     \* port.postMessage throws during this callback; every buffer handed to it
     portFails |-> FALSE, offered |-> <<>>,
     \* the largest value _bufferIndex had at a write into _buffer
     highest |-> 0,
     \* AudioInputProcessor
     buffer |-> <<>>,
     \* messages posted on the port
     posted |-> <<>>]

\* the for loop of PCMProcessor.process over the samples of input from position
\* i on, taken one stretch at a time: the samples that fit into _buffer are
\* stored, and when _bufferIndex reaches BUFFER_SIZE a copy of _buffer is posted
\* and _bufferIndex returns to 0
\* the loop of PCMProcessor.process that posts when _bufferIndex is above
\* BUFFER_SIZE instead of at it: one write goes past the end of _buffer
RECURSIVE pcm_loopPostsLate(_, _, _)
pcm_loopPostsLate(w, input, i) ==
    IF i > Len(input) THEN w
    ELSE LET n == Min(Len(input) - i + 1, BUFFER_SIZE + 1 - w.bufferIndex_)
             b == [k \in 1..BUFFER_SIZE |->
                     IF k > w.bufferIndex_ /\ k <= w.bufferIndex_ + n
                     THEN pcm_int16Sample(input[i + k - w.bufferIndex_ - 1])
                     ELSE w.buffer_[k]]
             h == Max(w.highest, w.bufferIndex_ + n - 1)
         IN  IF w.bufferIndex_ + n > BUFFER_SIZE
             THEN pcm_loopPostsLate(
                      [w EXCEPT !.buffer_ = b, !.bufferIndex_ = 0, !.highest = h,
                                !.offered = Append(@, b),
                                !.posted = IF w.portFails THEN @ ELSE Append(@, b)],
                      input, i + n)
             ELSE [w EXCEPT !.buffer_ = b, !.bufferIndex_ = @ + n, !.highest = h]

\* the loop of PCMProcessor.process without the try around postMessage: the
\* exception leaves the callback and the rest of the block is not read
RECURSIVE pcm_loopThrowEscapes(_, _, _)
pcm_loopThrowEscapes(w, input, i) ==
    IF i > Len(input) THEN w
    ELSE LET n == Min(Len(input) - i + 1, BUFFER_SIZE - w.bufferIndex_)
             b == [k \in 1..BUFFER_SIZE |->
                     IF k > w.bufferIndex_ /\ k <= w.bufferIndex_ + n
                     THEN pcm_int16Sample(input[i + k - w.bufferIndex_ - 1])
                     ELSE w.buffer_[k]]
         IN  IF w.bufferIndex_ + n >= BUFFER_SIZE
             THEN IF w.portFails
                  THEN [w EXCEPT !.buffer_ = b, !.bufferIndex_ = 0]
                  ELSE pcm_loopThrowEscapes(
                           [w EXCEPT !.buffer_ = b, !.bufferIndex_ = 0,
                                     !.offered = Append(@, b),
                                     !.posted = Append(@, b)], input, i + n)
             ELSE [w EXCEPT !.buffer_ = b, !.bufferIndex_ = @ + n]

RECURSIVE pcm_loop(_, _, _)
pcm_loop(w, input, i) ==
    IF i > Len(input) THEN w
    ELSE LET n == Min(Len(input) - i + 1, BUFFER_SIZE - w.bufferIndex_)
             b == [k \in 1..BUFFER_SIZE |->
                     IF k > w.bufferIndex_ /\ k <= w.bufferIndex_ + n
                     THEN pcm_int16Sample(input[i + k - w.bufferIndex_ - 1])
                     ELSE w.buffer_[k]]
             h == Max(w.highest, w.bufferIndex_ + n - 1)
         IN  IF w.bufferIndex_ + n >= BUFFER_SIZE
             THEN pcm_loop([w EXCEPT !.buffer_ = b, !.bufferIndex_ = 0, !.highest = h,
                                     !.offered = Append(@, b),
                                     !.posted = IF w.portFails THEN @ ELSE Append(@, b)],
                           input, i + n)
             ELSE [w EXCEPT !.buffer_ = b, !.bufferIndex_ = @ + n, !.highest = h]

\* PCMProcessor.process
pcm_process(w, input) ==
    IF Len(input) = 0 THEN w
    ELSE [pcm_loop(w, input, 1) EXCEPT !.totalSamplesProcessed = @ + Len(input)]

\* AudioInputProcessor.process that leaves the posted samples in its buffer
aip_processKeepsBuffer(w, input) ==
    IF Len(input) = 0 THEN w
    ELSE LET buf == w.buffer \o input
         IN  IF Len(buf) >= bufferSize
             THEN [w EXCEPT !.buffer = buf,
                            !.posted = Append(@, [i \in 1..bufferSize |->
                                                     aip_int16Sample(buf[i])])]
             ELSE [w EXCEPT !.buffer = buf]

\* AudioInputProcessor.process
aip_process(w, input) ==
    IF Len(input) = 0 THEN w
    ELSE LET buf == w.buffer \o input
         IN  IF Len(buf) >= bufferSize
             THEN LET audioToProcess == SubSeq(buf, 1, bufferSize)
                      pcmBuffer == [i \in 1..bufferSize |->
                                       aip_int16Sample(audioToProcess[i])]
                  IN  [w EXCEPT !.buffer = SubSeq(buf, bufferSize + 1, Len(buf)),
                                !.posted = Append(@, pcmBuffer)]
             ELSE [w EXCEPT !.buffer = buf]

\* the audio thread calls process() with the next block of the microphone signal
CanFeed(len) == worklet.fed + len <= MaxCaptureChunks * BUFFER_SIZE

NextBlock(len) == InputBlock(worklet.wave, worklet.fed, len)

PCMProcess ==
    /\ worklet.kind = "pcm"
    /\ \E len \in BlockLengths :
          /\ CanFeed(len)
          /\ worklet' = pcm_process([worklet EXCEPT !.fed = @ + len, !.portFails = FALSE],
                                    NextBlock(len))
    /\ UNCHANGED <<clientVars, poc, wav, earlier, simple>>

AudioInputProcess ==
    /\ worklet.kind = "aip"
    /\ \E len \in BlockLengths :
          /\ CanFeed(len)
          /\ worklet' = aip_process([worklet EXCEPT !.fed = @ + len], NextBlock(len))
    /\ UNCHANGED <<clientVars, poc, wav, earlier, simple>>

\* one of the two processors is registered and fed the microphone signal; the
\* page does nothing else
InitCapture ==
    /\ StartClient(0, {}, FALSE, FALSE)
    /\ poc = NoPoc
    /\ wav = NoWav
    /\ earlier = NoEarlier
    /\ simple = NoSimple
    /\ worklet \in {LoadedWorklet(kind, wave) : kind \in {"pcm", "aip"}, wave \in Waves}

NextCapture ==
    \/ PCMProcess
    \/ AudioInputProcess

SpecCapture == InitCapture /\ [][NextCapture]_vars

\* a callback of PCMProcessor during which port.postMessage throws
PCMProcessPortFails ==
    /\ worklet.kind = "pcm"
    /\ \E len \in BlockLengths :
          /\ CanFeed(len)
          /\ worklet' = pcm_process([worklet EXCEPT !.fed = @ + len, !.portFails = TRUE],
                                    NextBlock(len))
    /\ UNCHANGED <<clientVars, poc, wav, earlier, simple>>

\* PCMProcessor on a port that can fail
InitCaptureFaults ==
    /\ StartClient(0, {}, FALSE, FALSE)
    /\ poc = NoPoc
    /\ wav = NoWav
    /\ earlier = NoEarlier
    /\ simple = NoSimple
    /\ worklet \in {LoadedWorklet("pcm", wave) : wave \in Waves}

NextCaptureFaults ==
    \/ PCMProcess
    \/ PCMProcessPortFails

SpecCaptureFaults == InitCaptureFaults /\ [][NextCaptureFaults]_vars

\* ------------------------------------------------- poc.js outbound path

\* poc.js records through the pcm-processor worklet: each chunk the worklet
\* posts is converted to base64 by its own FileReader, and emitted when that
\* reader's loadend fires.  Distinct readers complete in no fixed order.

\* the bytes of the k-th posted chunk (a short stand-in for its 8192 bytes)
PcmData(k) == <<k, (7 * k) % 256, 255 - k, 128 + k>>

\* base64 of a byte sequence, as the sequence of its 6-bit digits; 64 is '='
RECURSIVE Base64(_)
Base64(bytes) ==
    IF bytes = <<>> THEN <<>>
    ELSE IF Len(bytes) = 1
    THEN <<bytes[1] \div 4, (bytes[1] % 4) * 16, 64, 64>>
    ELSE IF Len(bytes) = 2
    THEN <<bytes[1] \div 4, (bytes[1] % 4) * 16 + bytes[2] \div 16,
           (bytes[2] % 16) * 4, 64>>
    ELSE <<bytes[1] \div 4, (bytes[1] % 4) * 16 + bytes[2] \div 16,
           (bytes[2] % 16) * 4 + bytes[3] \div 64, bytes[3] % 64>>
         \o Base64(SubSeq(bytes, 4, Len(bytes)))

\* reader.result of readAsDataURL, split at the comma
DataURL(bytes) == <<"data:application/octet-stream;base64", Base64(bytes)>>

LoadedPoc ==
    [loaded |-> TRUE, connected |-> FALSE, posted |-> 0,
     reading |-> {}, emitted |-> <<>>]

\* processorNode.port.onmessage up to the call of arrayBufferToBase64
poc_onmessage(c, pcmData) ==
    IF c.connected
    THEN [c EXCEPT !.posted = @ + 1,
                   !.reading = @ \cup {[chunk |-> c.posted + 1, buffer |-> pcmData]}]
    ELSE [c EXCEPT !.posted = @ + 1]

\* reader.onloadend and the then-callback of poc_onmessage
poc_onloadend(c, r) ==
    LET base64String == DataURL(r.buffer)[2]
    IN  [c EXCEPT !.reading = @ \ {r},
                  !.emitted = Append(@, [event |-> "audio_input_chunk",
                                         chunk |-> r.chunk,
                                         audio |-> base64String])]

PocSocketConnect ==
    /\ poc.loaded /\ ~poc.connected
    /\ poc' = [poc EXCEPT !.connected = TRUE]
    /\ UNCHANGED <<clientVars, worklet, wav, earlier, simple>>

PocSocketDisconnect ==
    /\ poc.loaded /\ poc.connected
    /\ poc' = [poc EXCEPT !.connected = FALSE]
    /\ UNCHANGED <<clientVars, worklet, wav, earlier, simple>>

\* the worklet posts its next chunk
PocPortMessage ==
    /\ poc.loaded
    /\ poc.posted < MaxPocChunks
    /\ poc' = poc_onmessage(poc, PcmData(poc.posted + 1))
    /\ UNCHANGED <<clientVars, worklet, wav, earlier, simple>>

\* one of the FileReaders finishes
PocReaderLoadEnd ==
    /\ poc.loaded
    /\ \E r \in poc.reading : poc' = poc_onloadend(poc, r)
    /\ UNCHANGED <<clientVars, worklet, wav, earlier, simple>>

InitPoc ==
    /\ StartClient(0, {}, FALSE, FALSE)
    /\ worklet = NoWorklet
    /\ poc = LoadedPoc
    /\ wav = NoWav
    /\ earlier = NoEarlier
    /\ simple = NoSimple

NextPoc ==
    \/ PocSocketConnect
    \/ PocSocketDisconnect
    \/ PocPortMessage
    \/ PocReaderLoadEnd

SpecPoc == InitPoc /\ [][NextPoc]_vars

\* ------------------------------------------------------- createWavHeader

\* The header is the sequence of the 44 bytes of the ArrayBuffer; the byte at
\* offset k of the buffer is element k + 1.  A string is the sequence of its
\* character codes.

RIFF == <<82, 73, 70, 70>>
WAVE == <<87, 65, 86, 69>>
fmt == <<102, 109, 116, 32>>
data == <<100, 97, 116, 97>>

\* new ArrayBuffer(n)
ArrayBuffer(n) == [i \in 1..n |-> 0]

\* writeString: view.setUint8(offset + i, string.charCodeAt(i))
writeString(view, offset, string) ==
    [i \in DOMAIN view |->
        IF i > offset /\ i <= offset + Len(string) THEN string[i - offset] % 256
        ELSE view[i]]

\* the k-th byte, from the least significant, of the unsigned integer n
ByteOf(n, k) ==
    IF k = 0 THEN n % 256
    ELSE IF k = 1 THEN (n \div 256) % 256
    ELSE IF k = 2 THEN (n \div 65536) % 256
    ELSE (n \div 16777216) % 256

\* view.setUint32(offset, value, true) of the number n / d: the fraction is
\* dropped and the low 32 bits are stored, least significant byte first
setUint32(view, offset, n, d) ==
    LET v == Trunc(n, d)
    IN  [i \in DOMAIN view |->
            IF i > offset /\ i <= offset + 4 THEN ByteOf(v, i - offset - 1)
            ELSE view[i]]

\* view.setUint16(offset, value, true) of the number n / d
setUint16(view, offset, n, d) ==
    LET v == Trunc(n, d) % 65536
    IN  [i \in DOMAIN view |->
            IF i > offset /\ i <= offset + 2 THEN ByteOf(v, i - offset - 1)
            ELSE view[i]]

\* createWavHeader of continuous-voice.js (the same text is in
\* voice-assistant.js and poc.js); blockAlign and byteRate are numbers that
\* need not be whole, held here in eighths
createWavHeader(dataLength, sampleRate, numChannels, bitsPerSample) ==
    LET blockAlign8 == numChannels * bitsPerSample
        byteRate8 == sampleRate * blockAlign8
        v0 == ArrayBuffer(44)
        v1 == writeString(v0, 0, RIFF)
        v2 == setUint32(v1, 4, 36 + dataLength, 1)
        v3 == writeString(v2, 8, WAVE)
        v4 == writeString(v3, 12, fmt)
        v5 == setUint32(v4, 16, 16, 1)
        v6 == setUint16(v5, 20, 1, 1)
        v7 == setUint16(v6, 22, numChannels, 1)
        v8 == setUint32(v7, 24, sampleRate, 1)
        v9 == setUint32(v8, 28, byteRate8, 8)
        v10 == setUint16(v9, 32, blockAlign8, 8)
        v11 == setUint16(v10, 34, bitsPerSample, 1)
        v12 == writeString(v11, 36, data)
    IN  setUint32(v12, 40, dataLength, 1)

\* createWavHeader of the first client (src/unnamed/part_000): mono, 16 bits
createWavHeaderMono16(dataLength, sampleRate) ==
    LET v0 == ArrayBuffer(44)
        v1 == writeString(v0, 0, RIFF)
        v2 == setUint32(v1, 4, 36 + dataLength, 1)
        v3 == writeString(v2, 8, WAVE)
        v4 == writeString(v3, 12, fmt)
        v5 == setUint32(v4, 16, 16, 1)
        v6 == setUint16(v5, 20, 1, 1)
        v7 == setUint16(v6, 22, 1, 1)
        v8 == setUint32(v7, 24, sampleRate, 1)
        v9 == setUint32(v8, 28, sampleRate * 2, 1)
        v10 == setUint16(v9, 32, 2, 1)
        v11 == setUint16(v10, 34, 16, 1)
        v12 == writeString(v11, 36, data)
    IN  setUint32(v12, 40, dataLength, 1)

\* arguments of the calls: byte lengths of PCM data, sample rates, channel
\* counts and bit depths
DataLengths == {0, 1, 4000, 8000, 24000, 16777215}
SampleRates == {8000, 16000, 24000, 44100, 48000}
ChannelCounts == {1, 2}
BitDepths == {8, 12, 16, 24, 32}

\* a call about to be made: version is the file whose createWavHeader is called
WavCall(version, dataLength, sampleRate, numChannels, bitsPerSample) ==
    [called |-> TRUE, returned |-> FALSE, version |-> version,
     dataLength |-> dataLength, sampleRate |-> sampleRate,
     numChannels |-> numChannels, bitsPerSample |-> bitsPerSample,
     header |-> <<>>]

\* continuous-voice.js builds a header
CreateWavHeader ==
    /\ wav.called /\ ~wav.returned
    /\ wav.version = "continuous-voice.js"
    /\ wav' = [wav EXCEPT !.returned = TRUE,
                          !.header = createWavHeader(wav.dataLength, wav.sampleRate,
                                                     wav.numChannels, wav.bitsPerSample)]
    /\ UNCHANGED <<clientVars, worklet, poc, earlier, simple>>

\* the first client builds a header
CreateWavHeaderMono16 ==
    /\ wav.called /\ ~wav.returned
    /\ wav.version = "part_000"
    /\ wav' = [wav EXCEPT !.returned = TRUE,
                          !.header = createWavHeaderMono16(wav.dataLength, wav.sampleRate)]
    /\ UNCHANGED <<clientVars, worklet, poc, earlier, simple>>

InitWav ==
    /\ StartClient(0, {}, FALSE, FALSE)
    /\ worklet = NoWorklet
    /\ poc = NoPoc
    /\ earlier = NoEarlier
    /\ simple = NoSimple
    /\ wav \in {WavCall("continuous-voice.js", l, r, c, b) :
                    l \in DataLengths, r \in SampleRates,
                    c \in ChannelCounts, b \in BitDepths}
               \cup {WavCall("part_000", l, r, 1, 16) :
                        l \in DataLengths, r \in SampleRates}

NextWav ==
    \/ CreateWavHeader
    \/ CreateWavHeaderMono16

SpecWav == InitWav /\ [][NextWav]_vars

\* ------------------------------ the earlier voice-assistant.js (part_002)

\* This version plays a response in one piece: audio_stream_end concatenates
\* the queued chunks, decodes them and plays the result through
\* audioPlayingSource.  interruptModel is guarded by the flag canInterrupt,
\* which it clears for 2000 ms.  audioPlayingSource is 0 for null, otherwise
\* the number of the first chunk of the source.

LoadedEarlier ==
    [loaded |-> TRUE, socketConnected |-> FALSE, recordButtonDisabled |-> TRUE,
     isRecording |-> FALSE, localStream |-> FALSE,
     audioQueue |-> <<>>, isPlayingQueue |-> FALSE, audioPlayingSource |-> 0,
     canInterrupt |-> TRUE,
     cooldown |-> 0,        \* pending timers that set canInterrupt
     waiting |-> 0,         \* calls of playConcatenatedAudio in their 50 ms wait
     decoding |-> {},       \* decodeAudioData calls in flight
     micRequests |-> 0, received |-> 0, clicks |-> 0,
     interrupts |-> 0,      \* calls of interruptModel so far
     sent |-> <<>>]

p2_setStatus(c, showLoading) ==
    LET isBusy == c.isPlayingQueue \/ showLoading
        canInteract == c.socketConnected /\ (c.isRecording \/ ~isBusy \/ c.isPlayingQueue)
    IN  [c EXCEPT !.recordButtonDisabled = ~canInteract]

p2_stopAudioPlayback(c) ==
    [c EXCEPT !.audioPlayingSource = 0, !.isPlayingQueue = FALSE]

p2_resetAudioPlayback(c) ==
    p2_stopAudioPlayback([c EXCEPT !.audioQueue = <<>>, !.isPlayingQueue = FALSE])

p2_stopRecording(c, query) ==
    LET a == [c EXCEPT !.localStream = FALSE]
        b == IF c.socketConnected /\ c.isRecording
             THEN [a EXCEPT !.sent = Append(@, "stop_recording")] ELSE a
    IN  p2_setStatus([b EXCEPT !.isRecording = FALSE], query)

\* up to the await of getUserMedia
p2_startRecording(c) ==
    IF ~c.socketConnected THEN p2_setStatus(c, FALSE)
    ELSE IF c.isRecording THEN c
    ELSE [p2_stopAudioPlayback(p2_resetAudioPlayback(p2_setStatus(c, TRUE)))
             EXCEPT !.micRequests = @ + 1]

p2_interruptModel(c) ==
    LET a == [c EXCEPT !.interrupts = @ + 1]
    IN  IF ~a.canInterrupt THEN a
        ELSE p2_startRecording(
                 [p2_stopAudioPlayback(a) EXCEPT !.audioQueue = <<>>,
                                                 !.isPlayingQueue = FALSE,
                                                 !.canInterrupt = FALSE,
                                                 !.cooldown = @ + 1])

p2_toggleRecording(c, query) ==
    IF c.isRecording
    THEN IF c.isPlayingQueue THEN p2_interruptModel(c) ELSE p2_stopRecording(c, query)
    ELSE p2_startRecording(c)

p2_handleAudioChunk(c) ==
    [c EXCEPT !.received = @ + 1, !.audioQueue = Append(@, c.received + 1)]

\* playConcatenatedAudio up to its first await
p2_playConcatenatedAudio(c) ==
    IF c.audioQueue = <<>> \/ c.isPlayingQueue
    THEN IF c.audioQueue = <<>> /\ ~c.isRecording
         THEN [p2_setStatus(c, FALSE) EXCEPT !.recordButtonDisabled = ~c.socketConnected]
         ELSE c
    ELSE [p2_setStatus([c EXCEPT !.isPlayingQueue = TRUE], TRUE)
             EXCEPT !.waiting = @ + 1]

\* playConcatenatedAudio from the end of the 50 ms wait to the await of the decode
p2_WaitElapsed(c) ==
    IF c.audioQueue = <<>>
    THEN p2_setStatus(p2_resetAudioPlayback(c), FALSE)
    ELSE [c EXCEPT !.audioQueue = <<>>, !.decoding = @ \cup {c.audioQueue}]

\* the rest of the try block of playConcatenatedAudio
p2_DecodeResolved(c, d) ==
    [p2_stopAudioPlayback(c) EXCEPT !.audioPlayingSource = d[1],
                                    !.canInterrupt = TRUE]

\* the catch block of playConcatenatedAudio
p2_DecodeRejected(c) == p2_resetAudioPlayback(p2_setStatus(c, FALSE))

\* audioPlayingSource.onended
p2_onended(c) ==
    LET a == [c EXCEPT !.audioPlayingSource = 0, !.isPlayingQueue = FALSE]
    IN  [p2_setStatus(a, FALSE) EXCEPT !.recordButtonDisabled = ~a.socketConnected]

p2_handleError(c, query) ==
    LET a == p2_stopRecording(p2_resetAudioPlayback(p2_setStatus(c, FALSE)), query)
    IN  [a EXCEPT !.recordButtonDisabled = ~a.socketConnected]

p2_OnConnect(c) ==
    [p2_setStatus([c EXCEPT !.socketConnected = TRUE], FALSE)
        EXCEPT !.recordButtonDisabled = FALSE]

p2_OnDisconnect(c, query) ==
    LET a == p2_setStatus([c EXCEPT !.socketConnected = FALSE], FALSE)
    IN  p2_stopRecording([a EXCEPT !.recordButtonDisabled = TRUE], query)

p2_MicGranted(c) ==
    [c EXCEPT !.micRequests = @ - 1, !.localStream = TRUE, !.isRecording = TRUE,
              !.sent = Append(@, "start_recording")]

p2_MicDenied(c, query) ==
    p2_stopRecording(p2_setStatus([c EXCEPT !.micRequests = @ - 1], FALSE), query)

\* the state an action of the earlier client starts from
Earlier == [earlier EXCEPT !.sent = <<>>]

EarlierCommit(c) ==
    /\ earlier' = c
    /\ UNCHANGED <<clientVars, worklet, poc, wav, simple>>

EarlierSocketConnect ==
    /\ earlier.loaded /\ ~earlier.socketConnected
    /\ EarlierCommit(p2_OnConnect(Earlier))

EarlierSocketDisconnect ==
    /\ earlier.loaded /\ earlier.socketConnected
    /\ \E query \in BOOLEAN : EarlierCommit(p2_OnDisconnect(Earlier, query))

EarlierReceiveAudioChunk ==
    /\ earlier.loaded /\ earlier.socketConnected
    /\ earlier.received < MaxEarlierChunks
    /\ EarlierCommit(p2_handleAudioChunk(Earlier))

EarlierReceiveAudioStreamEnd ==
    /\ earlier.loaded /\ earlier.socketConnected
    /\ earlier.received > 0
    /\ EarlierCommit(p2_playConcatenatedAudio(Earlier))

EarlierReceiveProcessingError ==
    /\ earlier.loaded /\ earlier.socketConnected
    /\ \E query \in BOOLEAN : EarlierCommit(p2_handleError(Earlier, query))

EarlierClickRecordButton ==
    /\ earlier.loaded /\ ~earlier.recordButtonDisabled
    /\ earlier.isRecording \/ earlier.micRequests < MaxMicRequests
    /\ earlier.clicks < MaxEarlierClicks
    /\ \E query \in BOOLEAN :
          EarlierCommit(p2_toggleRecording([Earlier EXCEPT !.clicks = @ + 1], query))

EarlierMicrophoneGranted ==
    /\ earlier.loaded /\ earlier.micRequests > 0
    /\ EarlierCommit(p2_MicGranted(Earlier))

EarlierMicrophoneDenied ==
    /\ earlier.loaded /\ earlier.micRequests > 0
    /\ \E query \in BOOLEAN : EarlierCommit(p2_MicDenied(Earlier, query))

EarlierWaitElapses ==
    /\ earlier.loaded /\ earlier.waiting > 0
    /\ EarlierCommit(p2_WaitElapsed([Earlier EXCEPT !.waiting = @ - 1]))

EarlierDecodeResolves ==
    /\ earlier.loaded
    /\ \E d \in earlier.decoding :
          EarlierCommit(p2_DecodeResolved([Earlier EXCEPT !.decoding = @ \ {d}], d))

EarlierDecodeRejects ==
    /\ earlier.loaded
    /\ \E d \in earlier.decoding :
          EarlierCommit(p2_DecodeRejected([Earlier EXCEPT !.decoding = @ \ {d}]))

EarlierSourceEnded ==
    /\ earlier.loaded /\ earlier.audioPlayingSource # 0
    /\ EarlierCommit(p2_onended(Earlier))

\* the 2000 ms timer of interruptModel fires
EarlierCooldownElapses ==
    /\ earlier.loaded /\ earlier.cooldown > 0
    /\ EarlierCommit([Earlier EXCEPT !.cooldown = @ - 1, !.canInterrupt = TRUE])

InitEarlier ==
    /\ StartClient(0, {}, FALSE, FALSE)
    /\ worklet = NoWorklet
    /\ poc = NoPoc
    /\ wav = NoWav
    /\ earlier = LoadedEarlier
    /\ simple = NoSimple

NextEarlier ==
    \/ EarlierSocketConnect
    \/ EarlierSocketDisconnect
    \/ EarlierReceiveAudioChunk
    \/ EarlierReceiveAudioStreamEnd
    \/ EarlierReceiveProcessingError
    \/ EarlierClickRecordButton
    \/ EarlierMicrophoneGranted
    \/ EarlierMicrophoneDenied
    \/ EarlierWaitElapses
    \/ EarlierDecodeResolves
    \/ EarlierDecodeRejects
    \/ EarlierSourceEnded
    \/ EarlierCooldownElapses

SpecEarlier == InitEarlier /\ [][NextEarlier]_vars

\* ------------------------------------------ simple-voice.js (part_000)

\* The page after initialize(): audioQueue holds the arrival numbers of the
\* chunks, a decode in flight is the sequence of chunks handed to
\* decodeAudioData, audioPlayingSource is the sequence of chunks the current
\* source plays (<<>> for null); started lists the buffers of the sources
\* started so far.
LoadedSimple ==
    [loaded |-> TRUE, socketConnected |-> FALSE, recordButtonDisabled |-> TRUE,
     isRecording |-> FALSE, localStream |-> FALSE,
     audioQueue |-> <<>>, isPlayingQueue |-> FALSE, audioPlayingSource |-> <<>>,
     decoding |-> {}, received |-> 0, serverOpen |-> FALSE,
     started |-> <<>>, sent |-> <<>>]

sv_setStatus(c) ==
    [c EXCEPT !.recordButtonDisabled =
        ~c.socketConnected \/ (c.isPlayingQueue /\ ~c.isRecording)]

sv_stopRecording(c) ==
    LET a == [c EXCEPT !.localStream = FALSE]
        b == IF c.socketConnected /\ c.isRecording
             THEN [a EXCEPT !.sent = Append(@, "stop_recording")] ELSE a
    IN  sv_setStatus([b EXCEPT !.isRecording = FALSE])

sv_OnConnect(c) ==
    [sv_setStatus([c EXCEPT !.socketConnected = TRUE]) EXCEPT !.recordButtonDisabled = FALSE]

sv_OnDisconnect(c) ==
    sv_stopRecording(
        [sv_setStatus([c EXCEPT !.socketConnected = FALSE]) EXCEPT !.recordButtonDisabled = TRUE])

sv_handleAudioChunk(c) ==
    [c EXCEPT !.received = @ + 1, !.audioQueue = Append(@, c.received + 1)]

\* playConcatenatedAudio up to the await of the decode
sv_playConcatenatedAudio(c) ==
    IF c.audioQueue = <<>> \/ c.isPlayingQueue THEN c
    ELSE [sv_setStatus([c EXCEPT !.isPlayingQueue = TRUE])
             EXCEPT !.decoding = @ \cup {c.audioQueue}]

sv_handleAudioStreamEnd(c) == sv_playConcatenatedAudio(c)

\* the rest of the try block of playConcatenatedAudio
sv_DecodeResolved(c, d) ==
    [c EXCEPT !.audioPlayingSource = d, !.started = Append(@, d)]

\* audioPlayingSource.onended
sv_onended(c) ==
    sv_setStatus([c EXCEPT !.audioPlayingSource = <<>>, !.isPlayingQueue = FALSE])

Simple == [simple EXCEPT !.sent = <<>>]

SimpleCommit(c) ==
    /\ simple' = c
    /\ UNCHANGED <<clientVars, worklet, poc, wav, earlier>>

SimpleSocketConnect ==
    /\ simple.loaded /\ ~simple.socketConnected
    /\ SimpleCommit(sv_OnConnect(Simple))

SimpleSocketDisconnect ==
    /\ simple.loaded /\ simple.socketConnected
    /\ SimpleCommit(sv_OnDisconnect(Simple))

SimpleReceiveAudioChunk ==
    /\ simple.loaded /\ simple.socketConnected
    /\ simple.received < MaxSimpleChunks
    /\ SimpleCommit([sv_handleAudioChunk(Simple) EXCEPT !.serverOpen = TRUE])

SimpleReceiveAudioStreamEnd ==
    /\ simple.loaded /\ simple.socketConnected
    /\ simple.serverOpen
    /\ SimpleCommit([sv_handleAudioStreamEnd(Simple) EXCEPT !.serverOpen = FALSE])

SimpleDecodeResolves ==
    /\ simple.loaded
    /\ \E d \in simple.decoding :
          SimpleCommit(sv_DecodeResolved([Simple EXCEPT !.decoding = @ \ {d}], d))

SimpleSourceEnded ==
    /\ simple.loaded /\ simple.audioPlayingSource # <<>>
    /\ SimpleCommit(sv_onended(Simple))

\* simple-voice.js plays the responses of the server; the user does not
\* record, and no decode fails
InitSimplePlay ==
    /\ StartClient(0, {}, FALSE, FALSE)
    /\ worklet = NoWorklet
    /\ poc = NoPoc
    /\ wav = NoWav
    /\ earlier = NoEarlier
    /\ simple = LoadedSimple

NextSimplePlay ==
    \/ SimpleSocketConnect
    \/ SimpleSocketDisconnect
    \/ SimpleReceiveAudioChunk
    \/ SimpleReceiveAudioStreamEnd
    \/ SimpleDecodeResolves
    \/ SimpleSourceEnded

SpecSimplePlay == InitSimplePlay /\ [][NextSimplePlay]_vars

\* ------------------------------------------------------------ properties

\* C1: once an interruption (interruptModel or resetAudioPlayback) has run, no
\* source built from chunks received before it begins to play, whatever the
\* interleaving of decode completions and queued timers.
C1_NoStaleSourceStarts == ~staleStarted

\* C2: with no interruption, the segments scheduled for a response are contiguous:
\* each starts exactly where the one scheduled before it ends.
C2_SegmentsContiguous ==
    \A i \in 2..Len(scheduled) :
        (scheduled[i].resp = scheduled[i-1].resp
         /\ ~scheduled[i].stale /\ ~scheduled[i-1].stale)
        => scheduled[i].start = scheduled[i-1].start + scheduled[i-1].dur

\* C3: segments are scheduled in the order their chunks were received: of two
\* segments of a response scheduled one after the other, the second holds later
\* chunks and does not start before the first.
C3_ScheduledInArrivalOrder ==
    \A i \in 2..Len(scheduled) :
        (scheduled[i].resp = scheduled[i-1].resp
         /\ ~scheduled[i].stale /\ ~scheduled[i-1].stale)
        => /\ scheduled[i-1].last < scheduled[i].first
           /\ scheduled[i-1].start <= scheduled[i].start

\* C4: a response whose audio_stream_end has arrived is never left with nothing
\* scheduled to run (no timer, no decode, no completion timer) while chunks are
\* still queued or the playback flag is still set: playback always completes
\* (stated for the runs in which no decode fails).
C4_PlaybackCompletes ==
    (/\ audioStreamEnded
     /\ decodeErrors = 0
     /\ decoding = {}
     /\ timers.start = 0
     /\ timers.poll = 0
     /\ finishTimers = <<>>)
    => (audioQueue = <<>> /\ ~isPlayingQueue)

\* C5: finishAudioPlayback runs only with the chunk queue empty, audio_stream_end
\* received and the active set empty.
C5_FinishOnlyWhenDrained == ~finishedEarly

\* C6: the completion (finishAudioPlayback) of a response happens at most once:
\* it never runs twice without an audio_chunk in between.
C6_CompletionAtMostOnce == finishCount <= 1

\* a click on the record button that runs interruptModel
Interrupting == clicks' = clicks + 1 /\ isRecording /\ isPlayingQueue

\* C7: when interruptModel returns, every source of the active set is stopped,
\* the chunk queue and the active set are empty, nextPlayTime is 0 and exactly
\* one interrupt_response was emitted.
C7_InterruptPostcondition ==
    [][Interrupting =>
        /\ \A i \in DOMAIN audioBufferQueue :
               \A n \in sources' : n.id # audioBufferQueue[i].source
        /\ audioQueue' = <<>>
        /\ audioBufferQueue' = <<>>
        /\ nextPlayTime' = 0
        /\ Len(SelectSeq(sent', LAMBDA e : e = "interrupt_response")) = 1]_vars

\* an interruption has just run with a decode in flight
C7_Witness ==
    /\ sent = <<"interrupt_response">>
    /\ forceInterrupt
    /\ \E d \in decoding : d.stale

\* C8: an interruption issued while capture is active leaves the session
\* listening: isRecording stays true, the capture nodes and the microphone
\* stream stay in place and the interruption emits no stop_recording.
C8_InterruptKeepsListening ==
    [][Interrupting =>
        /\ isRecording'
        /\ sourceNode' /\ scriptProcessorNode' /\ localStream'
        /\ micRequests' = micRequests
        /\ \A i \in DOMAIN sent' : sent'[i] # "stop_recording"]_vars

\* an interruption has just run and capture is still active
C8_Witness ==
    /\ sent = <<"interrupt_response">>
    /\ isRecording /\ sourceNode /\ scriptProcessorNode /\ localStream
    /\ ~isPlayingQueue

\* what an observer of the playback state sees
Observable(s) ==
    <<s.audioQueue, s.audioBufferQueue, s.sources, s.isPlayingQueue, s.audioStreamEnded,
      s.audioChunkCount, s.isFirstChunkPlayed, s.forceInterrupt, s.isRecording,
      s.recordButtonDisabled, s.nextPlayTime>>

C10_OneSegmentPlaying ==
    \A a \in sources : \A b \in sources :
        (a # b /\ a.resp = b.resp /\ ~a.stale /\ ~b.stale)
        => ~(Playing(a, currentTime) /\ Playing(b, currentTime))

\* C11: in a run without interruption or reset, the playback clock nextPlayTime
\* never decreases from one step to the next, except when it is reset at the
\* boundary between two responses, that is when the stream has ended and no chunk
\* of the response is still queued or being decoded.
ResponseBoundary ==
    /\ audioStreamEnded \/ audioStreamEnded'
    /\ audioQueue = <<>>
    /\ decoding' = {}

C11_ClockMonotonic == [][nextPlayTime' < nextPlayTime => ResponseBoundary]_vars

\* a decode call that took the chunks cs and left rest in the queue stopped at
\* the first of: limit chunks taken, the estimated duration of what it took
\* reaching capMs, the queue empty; cs and rest are in arrival order
DurationMsTimes(cs) == SumBytes(cs) * 1000

CapReached(cs, capMs) == DurationMsTimes(cs) >= capMs * 2 * EXPECTED_SAMPLE_RATE

InArrivalOrder(q) == \A i \in 1..Len(q) - 1 : q[i].id < q[i+1].id

TakenByCountOrDuration(cs, rest, limit, capMs) ==
    /\ Len(cs) >= 1 /\ Len(cs) <= limit
    /\ ~CapReached(SubSeq(cs, 1, Len(cs) - 1), capMs)
    /\ Len(cs) = limit \/ rest = <<>> \/ CapReached(cs, capMs)
    /\ InArrivalOrder(cs \o rest)

\* the decode calls made by the step
NewDecodes == {d \in decoding' \ decoding : ~d.stale}

C12_VoiceAssistantGroups ==
    [][\A d \in NewDecodes :
          /\ Len(d.chunks) = Min(Len(d.chunks) + Len(audioQueue'), MaxChunksToProcess)
          /\ InArrivalOrder(d.chunks \o audioQueue')]_vars

\* the 16-bit sample the loaded processor makes of the input sample at pos
Int16Of(pos) ==
    IF worklet.kind = "pcm" THEN pcm_int16Sample(InputSample(worklet.wave, pos))
    ELSE aip_int16Sample(InputSample(worklet.wave, pos))

\* samples the loaded processor holds back after a callback
Remainder == IF worklet.kind = "pcm" THEN worklet.bufferIndex_ ELSE Len(worklet.buffer)

ExplicitStop == clicks' = clicks + 1 \/ faults' = faults + 1

C15_SentInCreationOrder ==
    poc.loaded =>
        \A i \in 1..Len(poc.emitted) - 1 :
            poc.emitted[i].chunk < poc.emitted[i+1].chunk

\* the capture of continuous-voice.js is set up and the call is active
Capturing == scriptProcessorNode /\ sourceNode /\ localStream /\ isCallActive

\* a step that mutes or unmutes during a call
MuteToggled ==
    /\ isCallActive /\ isCallActive'
    /\ isMuted' # isMuted
    /\ micRequests' = micRequests

ProcessingErrorStep ==
    /\ faults' = faults + 1
    /\ socketConnected /\ socketConnected'
    /\ micDenied' = micDenied

\* C17: on processing_error the client cleans up as an interruption does: every
\* active source is stopped, the chunk queue and the active set are emptied,
\* the clock returns to 0 and the playing flag is cleared; and it emits no
\* interrupt_response.
C17_ErrorCleansUp ==
    [][ProcessingErrorStep =>
          /\ sources' = {}
          /\ audioQueue' = <<>>
          /\ audioBufferQueue' = <<>>
          /\ nextPlayTime' = 0
          /\ ~isPlayingQueue'
          /\ \A i \in 1..Len(sent') : sent'[i] # "interrupt_response"]_vars

\* the step is a disconnect of the transport
DisconnectStep == socketConnected /\ ~socketConnected'

\* C18: on a disconnect of the transport the client runs the cleanup of the
\* interruption (sources stopped, queue and active set emptied, clock 0,
\* playing flag cleared) and the session is idle afterwards: not recording,
\* no call active.
C18_DisconnectResets ==
    [][DisconnectStep =>
          /\ sources' = {}
          /\ audioQueue' = <<>>
          /\ audioBufferQueue' = <<>>
          /\ nextPlayTime' = 0
          /\ ~isPlayingQueue'
          /\ ~isRecording'
          /\ ~isCallActive']_vars

\* the part of C18 about the session alone
C18_DisconnectEndsCall == [][DisconnectStep => ~isCallActive']_vars

\* C19: the session flag is never left true over a capture that has been torn
\* down: while the transport is connected, a recording or an active call has
\* its stream and its capture nodes; in particular after a disconnect and a
\* reconnect.
C19_FlagMeansCapture ==
    (socketConnected /\ (isRecording \/ isCallActive))
        => (localStream /\ sourceNode /\ scriptProcessorNode)

\* the step is the refusal of the microphone
MicDeniedStep == ~micDenied /\ micDenied'

\* C20: when the microphone cannot be acquired the start is abandoned: the step
\* emits no start_recording, the recording and call flags are false after it,
\* the stream and the capture nodes are released, and no new request for the
\* microphone is made.
C20_MicFailureAbandonsStart ==
    [][MicDeniedStep =>
          /\ \A i \in 1..Len(sent') : sent'[i] # "start_recording"
          /\ ~isRecording' /\ ~isCallActive'
          /\ ~localStream' /\ ~sourceNode' /\ ~scriptProcessorNode'
          /\ micRequests' = micRequests - 1]_vars

\* the microphone was refused after the user asked to record
C20_Witness == micDenied /\ clicks > 0 /\ ~isRecording /\ micRequests = 0

\* the unsigned integer stored least significant byte first in the n bytes of
\* the header from offset on
RECURSIVE LittleEndian(_, _, _)
LittleEndian(header, offset, n) ==
    IF n = 0 THEN 0
    ELSE header[offset + 1] + 256 * LittleEndian(header, offset + 1, n - 1)

NewSources == sources' \ sources

\* C22: every segment is started at startTime = max(nextPlayTime, current audio
\* clock time): no segment is given a start time earlier than the audio clock at
\* the moment it is scheduled, and after scheduling
\* nextPlayTime = startTime + duration.
C22_StartAtMaxOfClockAndNext ==
    [][\A n \in NewSources :
          /\ n.when = Max(nextPlayTime, currentTime)
          /\ n.when >= currentTime
          /\ nextPlayTime' = n.when + n.dur]_vars

DecodeFailedStep == decodeErrors' = decodeErrors + 1

\* after the step something is scheduled that will run the playback engine
\* again: a decode in flight, a timer, or the completion timer
EnginePending ==
    \/ decoding' # {}
    \/ timers'.start > 0 \/ timers'.poll > 0 \/ timers'.play > 0
    \/ finishTimers' # <<>>

\* C24: a decode failure on one group discards only that group and does not
\* abort the response: the step of the failure leaves every queued chunk either
\* in the queue or in a new decode call, and it leaves the engine either with
\* something scheduled (the next group's decode, a timer, the completion) or
\* idle with the playing flag cleared, so that the chunks of later groups are
\* still decoded and scheduled.
C24_DecodeFailureDiscardsOneGroup ==
    [][DecodeFailedStep =>
          /\ \E new \in SUBSET NewDecodes :
                 /\ Cardinality(new) <= 1
                 /\ \/ new = {} /\ audioQueue' = audioQueue
                    \/ \E d \in new : d.chunks \o audioQueue' = audioQueue
          /\ isPlayingQueue' => EnginePending]_vars

\* the step is a call of interruptModel of the earlier voice-assistant.js
EarlierInterruptCalled ==
    /\ earlier.loaded
    /\ earlier'.interrupts = earlier.interrupts + 1

\* C25: the interruption is callable at any time a response is playing and the
\* controller imposes no cooldown: every call of interruptModel while playback
\* is active flushes playback (the source is stopped, the queue is empty and
\* the playing flag is cleared), also when it follows a previous interruption
\* immediately.
C25_NoCooldown ==
    [][EarlierInterruptCalled =>
          /\ earlier'.audioPlayingSource = 0
          /\ earlier'.audioQueue = <<>>
          /\ ~earlier'.isPlayingQueue]_vars

\* the interruption of voice-assistant.js is not guarded by any flag: a click
\* during playback that runs it always flushes
C25_VoiceAssistantNoCooldown ==
    [][Interrupting =>
          /\ audioQueue' = <<>>
          /\ audioBufferQueue' = <<>>
          /\ ~isPlayingQueue'
          /\ \A i \in DOMAIN audioBufferQueue :
                 \A n \in sources' : n.id # audioBufferQueue[i].source]_vars

\* a step of continuous-voice.js that ends with resetAudioPlayback: the end of
\* the call, a disconnect, or the refusal of the microphone
CVResetStep ==
    \/ isCallActive /\ ~isCallActive'
    \/ DisconnectStep
    \/ MicDeniedStep

\* C26 (as amended): after resetAudioPlayback the inbound chunk queue is empty
\* and the end-of-stream flag is back at its idle value, whatever the state
\* before the call: false in voice-assistant.js, true in continuous-voice.js,
\* whose flag starts true and is set to true by the reset.
C26_ResetLeavesIdleStream ==
    /\ [](LET r == cv_resetAudioPlayback(St)
              v == resetAudioPlayback(St)
          IN  /\ r.audioQueue = <<>> /\ r.audioStreamEnded
              /\ v.audioQueue = <<>> /\ ~v.audioStreamEnded)
    /\ [][CVResetStep => (audioQueue' = <<>> /\ audioStreamEnded')]_vars

\* a reset has run in the middle of a response: the server has not ended the
\* stream, a decode made stale by the reset is in flight, the queue is empty
\* and the flag is set
C26_Witness ==
    /\ serverOpen
    /\ \E d \in decoding : d.stale
    /\ audioQueue = <<>>
    /\ audioStreamEnded
    /\ ~isCallActive

\* C26 (as stated): after resetAudioPlayback the inbound chunk queue is empty
\* and the end-of-stream flag is false.
C26_ResetClearsFlag ==
    [][CVResetStep => (audioQueue' = <<>> /\ ~audioStreamEnded')]_vars

\* C27: a segment is removed from the active set as soon as its onended callback
\* fires: in every reachable state every segment of the active set
\* (audioBufferQueue) is one whose source is still scheduled or playing, or
\* whose ended event is queued and has not been handled yet; the active set
\* contains no segment whose playback has already ended.
C27_ActiveSetHoldsNoEndedSegment ==
    \A i \in DOMAIN audioBufferQueue :
        \/ \E n \in sources : n.id = audioBufferQueue[i].source
        \/ audioBufferQueue[i].source \in ended

\* the playback state of continuous-voice.js: chunk queue, active set, clock,
\* flags, timers, decodes in flight and sources
PlaybackState(s) ==
    <<s.audioQueue, s.audioBufferQueue, s.nextPlayTime, s.isPlayingQueue,
      s.audioStreamEnded, s.timers, s.finishTimers, s.decoding, s.sources, s.ended,
      s.sent>>

\* the step is the arrival of an audio_chunk
AudioChunkStep == received' = received + 1

\* C28: an audio_chunk received while no call is active, or with a missing
\* audio payload, is ignored: it leaves the chunk queue, the active set, the
\* clock and all playback flags unchanged, starts no timer and emits nothing.
C28_MeaninglessChunkIgnored ==
    /\ [](/\ PlaybackState(cv_handleAudioChunk(St, NoAudio)) = PlaybackState(St)
          /\ ~isCallActive =>
                \A bytes \in ChunkSizes :
                    PlaybackState(cv_handleAudioChunk(St, bytes)) = PlaybackState(St))
    /\ [][(AudioChunkStep /\ ~isCallActive) =>
             /\ UNCHANGED <<audioQueue, audioBufferQueue, nextPlayTime, isPlayingQueue,
                            audioStreamEnded, timers, finishTimers, decoding, sources,
                            ended>>
             /\ sent' = <<>>]_vars

\* an audio_chunk has arrived over a connection that outlived its call, and
\* nothing was queued or scheduled for it
C28_Witness ==
    /\ socketConnected /\ ~isCallActive
    /\ received > 0
    /\ audioQueue = <<>>
    /\ timers.play = 0
    /\ decoding = {} /\ sources = {}

\* C29: a duplicate audio_stream_end is tolerated: in every playback state,
\* receiving audio_stream_end twice in a row leaves the same state as
\* receiving it once, and it never ends playback (never clears the active
\* set) while segments are still playing.
C29_DuplicateStreamEndTolerated ==
    LET once == cv_handleAudioStreamEnd(St)
        twice == cv_handleAudioStreamEnd(once)
    IN  /\ PlaybackState(twice) = PlaybackState(once)
        /\ audioBufferQueue # <<>> => twice.audioBufferQueue = audioBufferQueue

\* the first half of C29 alone, in continuous-voice.js
C29_SecondStreamEndChangesNothing ==
    LET once == cv_handleAudioStreamEnd(St)
    IN  PlaybackState(cv_handleAudioStreamEnd(once)) = PlaybackState(once)

\* C29 in voice-assistant.js
C29_VoiceAssistantTolerates ==
    LET once == handleAudioStreamEnd(St)
        twice == handleAudioStreamEnd(once)
    IN  /\ PlaybackState(twice) = PlaybackState(once)
        /\ audioBufferQueue # <<>> =>
              /\ twice.audioBufferQueue = audioBufferQueue
              /\ twice.finishTimers = finishTimers

\* C30: in every capture processor a posted sample is within
\* [-32768, 32767], input 0 gives 0, input at or above 1 gives 32767 and
\* input at or below -1 gives -32768.
C30_QuantizationRange ==
    worklet.kind # "none" =>
        \A j \in 1..Len(worklet.posted) : \A i \in 1..BUFFER_SIZE :
            LET x == InputSample(worklet.wave, (j - 1) * BUFFER_SIZE + i)
                y == worklet.posted[j][i]
            IN  /\ y >= 0 - 32768 /\ y <= 32767
                /\ x = 0 => y = 0
                /\ x >= FloatOne => y = 32767
                /\ x <= 0 - FloatOne => y = 0 - 32768

\* C30 with the negative full scale of pcm-processor.js as the code has it
C30_QuantizationAsCoded ==
    worklet.kind # "none" =>
        \A j \in 1..Len(worklet.posted) : \A i \in 1..BUFFER_SIZE :
            LET x == InputSample(worklet.wave, (j - 1) * BUFFER_SIZE + i)
                y == worklet.posted[j][i]
            IN  /\ y >= 0 - 32768 /\ y <= 32767
                /\ x = 0 => y = 0
                /\ x >= FloatOne => y = 32767
                /\ x <= 0 - FloatOne =>
                      y = IF worklet.kind = "pcm" THEN 0 - 32767 ELSE 0 - 32768

\* C31: a failure to hand a chunk to the transport does not block capture:
\* whether or not postMessage throws, every full buffer of PCMProcessor is
\* offered to the port, in input order, the accumulator is reset after it, and
\* the chunks offered after a failure are delivered.
C31_SendFailureKeepsCapture ==
    worklet.kind = "pcm" =>
        /\ worklet.bufferIndex_ < BUFFER_SIZE
        /\ Len(worklet.offered) * BUFFER_SIZE + worklet.bufferIndex_ = worklet.fed
        /\ \A j \in 1..Len(worklet.offered) : \A i \in 1..BUFFER_SIZE :
              worklet.offered[j][i] = Int16Of((j - 1) * BUFFER_SIZE + i)
        /\ Len(worklet.posted) <= Len(worklet.offered)
        /\ (~worklet.portFails /\ worklet.bufferIndex_ = 0 /\ worklet.offered # <<>>) =>
              /\ worklet.posted # <<>>
              /\ worklet.posted[Len(worklet.posted)] = worklet.offered[Len(worklet.offered)]

\* the first chunk was lost to a throwing postMessage and the second one, made
\* by a later callback, was delivered
C31_Witness ==
    /\ worklet.kind = "pcm"
    /\ Len(worklet.offered) = 2
    /\ Len(worklet.posted) = 1
    /\ worklet.posted[1] = worklet.offered[2]

\* C31 in voice-assistant.js: the capture callback changes nothing of the
\* session, and while recording it emits the chunk exactly when the socket is
\* connected
C31_VoiceAssistantKeepsCapturing ==
    LET a == onaudioprocess(St)
    IN  /\ [a EXCEPT !.sent = <<>>] = St
        /\ isRecording =>
              a.sent = IF socketConnected THEN <<"audio_input_chunk">> ELSE <<>>

\* the step is the resumption of startRecording with the microphone stream
StartRecordingResumes ==
    /\ micRequests' = micRequests - 1
    /\ sent' # <<>>
    /\ sent'[Len(sent')] = "start_recording"

\* C32: at most one capture session exists at a time: start_recording is
\* emitted only when no recording is under way (so that a stop_recording lies
\* between two of them), and the microphone stream obtained does not replace
\* one that was never stopped.
C32_OneCaptureSession ==
    [][StartRecordingResumes => (~isRecording /\ ~localStream)]_vars

\* invocations of playNextAudioChunk that are awaiting their decode
InFlight == {d \in decoding : ~d.stale}

\* C33: at most one invocation of the scheduling pipeline of
\* continuous-voice.js (take group, decode, schedule) is in flight at any
\* time.
C33_OneInvocationInFlight == Cardinality(InFlight) <= 1

\* the step runs the onended callback of a source that resetAudioPlayback stopped
LeftoverEnded == stopped' # stopped /\ stopped' \subseteq stopped

\* chunks received after the reset are queued, being decoded or playing
NextResponseUnderWay == audioQueue # <<>> \/ InFlight # {} \/ audioBufferQueue # <<>>

\* C34: an onended callback of a source stopped by resetAudioPlayback that
\* fires after chunks of a new response have arrived neither runs
\* finishAudioPlayback on the new response's state nor starts a scheduling
\* invocation for it: it leaves queue, active set, flags, clock, timers and
\* decodes as they are.
C34_LeftoverCallbackIsInert ==
    [][(LeftoverEnded /\ NextResponseUnderWay) =>
          UNCHANGED <<audioQueue, audioBufferQueue, isPlayingQueue, audioStreamEnded,
                      nextPlayTime, timers, decoding, finishCount>>]_vars

\* the completion timers whose callback runs in this step
FiredTimers ==
    {i \in DOMAIN finishTimers :
        finishTimers' = SubSeq(finishTimers, 1, i - 1)
                            \o SubSeq(finishTimers, i + 1, Len(finishTimers))}

\* chunks of a response begun after the timer t was set are queued or in the
\* active set
LaterResponsePresent(t) ==
    \/ \E i \in DOMAIN audioQueue : audioQueue[i].resp > t.resp
    \/ \E i \in DOMAIN audioBufferQueue : \E n \in sources :
          n.id = audioBufferQueue[i].source /\ n.resp > t.resp

\* C35: the deferred reset scheduled by finishAudioPlayback of
\* voice-assistant.js only affects the response that scheduled it: when it
\* fires with chunks of a later response queued or in the active set, it
\* empties neither and does not clear the playing flag.
C35_FinishTimerSparesLaterResponse ==
    [][\A i \in FiredTimers :
          LaterResponsePresent(finishTimers[i]) =>
              UNCHANGED <<audioQueue, audioBufferQueue, isPlayingQueue>>]_vars

\* the step is the arrival of the first audio_chunk of a response
FirstChunkStep == received' = received + 1 /\ ~serverOpen

\* nothing of an earlier response is left: it has finished or was interrupted
PlaybackIdle ==
    /\ ~isPlayingQueue
    /\ audioQueue = <<>> /\ audioBufferQueue = <<>>
    /\ InFlight = {}
    /\ timers.start = 0 /\ timers.poll = 0
    /\ finishTimers = <<>>

\* C36: progressive playback starts on the first chunk of every response:
\* when the first audio_chunk of a response arrives at voice-assistant.js
\* with nothing of an earlier response left, the step starts playback or
\* queues the start timer, without waiting for audio_stream_end.
C36_EveryResponseStartsOnFirstChunk ==
    [][(FirstChunkStep /\ PlaybackIdle) => (isPlayingQueue' \/ timers'.start > 0)]_vars

\* the same for the first response after the page has loaded or the playback
\* was reset
C36_FreshResponseStartsOnFirstChunk ==
    [][(FirstChunkStep /\ PlaybackIdle /\ audioChunkCount = 0) =>
          (isPlayingQueue' \/ timers'.start > 0)]_vars

\* the chunks of the buffers of all sources started so far, one after the other
RECURSIVE Concat(_)
Concat(groups) == IF groups = <<>> THEN <<>> ELSE Head(groups) \o Concat(Tail(groups))

\* C37: chunk conservation, with no interruption, reset or decode failure:
\* the buffers handed to the sources hold each received chunk at most once,
\* in arrival order, also across responses, and a chunk that is in none of
\* them is still queued or being decoded.
C37_ChunkConservation ==
    simple.loaded =>
        LET played == Concat(simple.started)
        IN  /\ \A i \in 1..Len(played) - 1 : played[i] < played[i + 1]
            /\ \A id \in 1..simple.received :
                  \/ \E i \in DOMAIN played : played[i] = id
                  \/ \E i \in DOMAIN simple.audioQueue : simple.audioQueue[i] = id
                  \/ \E d \in simple.decoding : \E i \in DOMAIN d : d[i] = id

\* C38: every source of continuous-voice.js that has been started and has
\* neither ended nor been stopped is in the active set, so that a reset can
\* stop it: the active set is never emptied of a live source.
C38_LiveSourcesAreTracked ==
    \A n \in sources :
        \E i \in DOMAIN audioBufferQueue : audioBufferQueue[i].source = n.id

\* C39: in PCMProcessor.process the write index stays in bounds: every write
\* into _buffer is made at an index from 0 to BUFFER_SIZE - 1, and after every
\* callback _bufferIndex is in that range, for any sequence of block lengths.
C39_WriteIndexInBounds ==
    worklet.kind = "pcm" =>
        /\ worklet.bufferIndex_ >= 0 /\ worklet.bufferIndex_ < BUFFER_SIZE
        /\ worklet.highest >= 0 /\ worklet.highest < BUFFER_SIZE

\* blocks that do not divide the buffer size were fed: the buffer was filled
\* to its last element and writing went on from index 0
C39_Witness ==
    /\ worklet.kind = "pcm"
    /\ worklet.highest = BUFFER_SIZE - 1
    /\ worklet.offered # <<>>
    /\ worklet.bufferIndex_ > 0
    /\ worklet.bufferIndex_ % 128 # 0

====
